---- MODULE Spec2Model ----
(***************************************************************************)
(* State-machine models of the playlist sorter of ykvlv.github.io:         *)
(*                                                                         *)
(*   SpecApi  YandexMusicAPI.addTrackToPlaylist, the revision-checked      *)
(*            insert with its retry loop (lib/yandex-music-api.ts).        *)
(*   Spec     the React hooks usePlaylistsData / usePlaylistsFetch /       *)
(*            usePlaylistsMutations as one event-loop machine.             *)
(*   SpecDelta  the delta callbacks of usePlaylistsData between renders.   *)
(*   SpecPage   usePlaylistsPagination.                                    *)
(*   SpecProxy  one request to the yandex-music-proxy worker.              *)
(*   SpecAuth   useYandexAuth: restore, loginWithToken, logout.            *)
(*                                                                         *)
(* and of the Trakt sync script (sync-trakt):                              *)
(*                                                                         *)
(*   SpecSync    one run of main(): token validation and refresh, the      *)
(*               fetch phases, enrichment and the write of the gist.       *)
(*   SpecGroup   groupHistory on every short history.                      *)
(*   SpecFormat  formatEpisodeSubtitle on every short episode list.        *)
(*   SpecCalendar  groupCalendarEpisodes on every short calendar.          *)
(*   SpecEnrich  enrichItems on short histories, season maps and ratings.  *)
(*                                                                         *)
(* and of the watchlog page: SpecGranularity, getGranularity on every age. *)
(*                                                                         *)
(* JavaScript is single threaded: every action below is one task of the    *)
(* event loop (a user call, a React commit, a network response together    *)
(* with the continuation it resumes).  A promise that an abort() rejects   *)
(* resumes in the microtask checkpoint of the aborting task, i.e. before   *)
(* the next task; those continuations are separate actions, and every     *)
(* task-level action is disabled while one of them is outstanding.         *)
(***************************************************************************)
EXTENDS Integers, Sequences, FiniteSets, TLC

VARIABLES
    \* ---- YandexMusicAPI.addTrackToPlaylist (one call) ----
    apiPc,          \* "start" | "getRev" | "post" | "delay" | "done"
    apiRetries,     \* the retries parameter
    apiAttempt,     \* the loop variable attempt
    apiAborted,     \* signal.aborted
    apiResult,      \* "none" | "ok" | "abort" | "error" | "exhausted"
    apiRevFetches,  \* GET /users/{uid}/playlists/{kind} requests issued
    apiSubmits,     \* POST .../change requests issued
    apiAccepted,    \* diff submissions the remote accepted
    apiDelays,      \* the backoff delays waited, in order
    apiLog,         \* what the remote answered to each attempt, in order
    \* ---- the component that uses usePlaylistsData ----
    uid,            \* the uid prop; 0: no user (token and uid are set together)
    alive,          \* the component is mounted
    idChanges,      \* identity changes so far (bounded)
    \* ---- the remote playlist store ----
    srvTracks,      \* playlist kind -> set of track ids
    srvLiked,       \* the liked track ids, in order
    \* ---- usePlaylistsFetch ----
    fPlaylists,     \* state playlists: the kinds listed and their trackCount
    fLiked,         \* state likedTrackIds
    fTracks,        \* state playlistTracks: Map<kind, Set<trackId>>
    isLoading,      \* state isLoading
    isRefreshing,   \* state isRefreshing
    loads,          \* the loadData invocations that have not returned
    \* ---- usePlaylistsData ----
    lPlaylists,     \* state localPlaylists (has = FALSE: null)
    lLiked,         \* state localLikedTrackIds
    lTracks,        \* state localPlaylistTracks
    mutFlag,        \* mutationsDuringRefreshRef.current
    orch,           \* the running refresh() of usePlaylistsData
    refreshCalls,   \* refresh() calls so far (bounded)
    \* ---- usePlaylistsMutations ----
    pendingAddsRef,
    pendingUnlikesRef,
    pendingAdds,    \* state pendingAdds
    pendingUnlikes, \* state pendingUnlikes
    inFlightAdds,   \* inFlightAddsRef: track id -> promise (0: no entry)
    inFlightUnlikes,
    ctlAdd,         \* abortControllersRef, keys add_{track}_{kind}
    ctlUnlike,      \* abortControllersRef, keys unlike_{track}
    isMountedRef,
    calls,          \* the calls of addTrackToPlaylist / unlikeTrack, in order
    \* ---- sync-trakt: one run of main() ----
    syPc,           \* where main() is: "probe" | "refresh" | "reprobe" |
                    \* "pubkey" | "secretAccess" | "secretRefresh" | "phase1" |
                    \* "phase3" | "gist" | "done" | "failed"
    syGhRepo,       \* GH_REPOSITORY is set
    syAccess,       \* client.accessToken: 0 the pair of the environment, 1 the new pair
    syRefresh,      \* client.refreshToken, likewise
    syStore,        \* the repository secrets TRAKT_ACCESS_TOKEN / TRAKT_REFRESH_TOKEN
    syLog,          \* the requests sent, in order
    syFail,         \* what made the run fail ("none": it has not failed)
    syP1,           \* phase 1: history / stats / calendar -> "pending" | "ok" | "fail"
    syHistory,      \* the history the remote returned
    syRawCal,       \* the calendar the remote returned (items before the sort)
    sySeasons,      \* phase 3: slug -> "pending" | "ok" | "fail"
    syRatings,      \* phase 3: "idle" | "pending" | "ok" | "fail"
    syOut,          \* the documents written to the gist, in order
    \* ---- groupHistory(history) ----
    ghInput,        \* the argument
    ghDone,         \* the function has returned
    ghItems,        \* what it returned
    \* ---- formatEpisodeSubtitle(season, episodes) ----
    fsSeason,
    fsEpisodes,
    fsDone,
    fsResult,
    \* ---- groupCalendarEpisodes(episodes) ----
    gcInput,        \* the argument
    gcDone,         \* the function has returned
    gcGroups,       \* what it returned
    \* ---- enrichItems(groupHistory(history), seasonsMap, ratings) ----
    enHistory,      \* the history
    enSeasons,      \* seasonsMap
    enRatingItems,  \* the answer of /sync/ratings/all
    enDone,         \* enrichItems has returned
    enItems,        \* what it returned
    \* ---- yandex-music-proxy: one request to the worker ----
    pxMethod,       \* request.method
    pxOrigin,       \* the Origin header
    pxPath,         \* url.pathname
    pxParam,        \* url.searchParams.get('url')
    pxPc,           \* "recv" | "upstream" | "done"
    pxUpstream,     \* the upstream requests made, in order
    pxStatus,       \* the status of the response (0: none yet)
    \* ---- the fiber of the component that uses usePlaylistsData ----
    fiberLanes,         \* an update is queued on the fiber and not yet rendered
    deltaCalls,         \* delta callbacks invoked so far (bounded)
    \* ---- usePlaylistsPagination ----
    trackIds,           \* the trackIds prop: [v: which array, n: its length]
    skipLoading,        \* the skipLoading prop
    currentPage,        \* state currentPage
    currentPageTracks,  \* state currentPageTracks
    isLoadingPage,      \* state isLoadingPage
    prevTrackIdsRef,    \* prevTrackIdsRef.current (the v of the array)
    abortControllerRef, \* the loadPage call that owns the controller (0: null)
    pageLoads,          \* the loadPage calls awaiting getTracksById
    pageDeps,           \* the dependencies that the effects last ran with
    pageRequested,      \* the page that was requested last
    pageCalls,          \* loadPage calls so far
    pageInputs,         \* prop changes and setPage calls so far (bounded)
    \* ---- watched-date: getGranularity ----
    grDaysAgo,          \* the argument daysAgo
    grDone,             \* getGranularity has returned
    grResult,           \* what it returned
    \* ---- useYandexAuth ----
    auStored,           \* localStorage.getItem(STORAGE_KEY)
    auAuth,             \* state auth: the token and the uid of the user (0: absent)
    auIsLoading,        \* state isLoading
    auError,            \* state error ("none": null)
    auInitialized,      \* initializedRef.current
    auFound,            \* stored: the entry that the restore effect read
    auMounted,          \* the component is mounted
    auOps,              \* the fetchAccountStatus calls that have not settled
    auRequests,         \* account requests made so far
    auCalls             \* loginWithToken and logout calls so far (bounded)

hookVars == <<uid, alive, idChanges, srvTracks, srvLiked, fPlaylists, fLiked,
              fTracks, isLoading, isRefreshing, loads, lPlaylists, lLiked,
              lTracks, mutFlag, orch, refreshCalls, pendingAddsRef,
              pendingUnlikesRef, pendingAdds, pendingUnlikes, inFlightAdds,
              inFlightUnlikes, ctlAdd, ctlUnlike, isMountedRef, calls>>

apiVars == <<apiPc, apiRetries, apiAttempt, apiAborted, apiResult,
             apiRevFetches, apiSubmits, apiAccepted, apiDelays, apiLog>>

syncVars == <<syPc, syGhRepo, syAccess, syRefresh, syStore, syLog, syFail, syP1,
              syHistory, syRawCal, sySeasons, syRatings, syOut>>

ghVars == <<ghInput, ghDone, ghItems>>

fsVars == <<fsSeason, fsEpisodes, fsDone, fsResult>>

gcVars == <<gcInput, gcDone, gcGroups>>

enVars == <<enHistory, enSeasons, enRatingItems, enDone, enItems>>

pxVars == <<pxMethod, pxOrigin, pxPath, pxParam, pxPc, pxUpstream, pxStatus>>

dlVars == <<fiberLanes, deltaCalls>>

pgVars == <<trackIds, skipLoading, currentPage, currentPageTracks, isLoadingPage,
            prevTrackIdsRef, abortControllerRef, pageLoads, pageDeps,
            pageRequested, pageCalls, pageInputs>>

grVars == <<grDaysAgo, grDone, grResult>>

auVars == <<auStored, auAuth, auIsLoading, auError, auInitialized, auFound,
            auMounted, auOps, auRequests, auCalls>>

\* everything but the variables of one machine
notApiVars == <<hookVars, syncVars, ghVars, fsVars, gcVars, enVars, pxVars, dlVars, pgVars, grVars, auVars>>
notHookVars == <<apiVars, syncVars, ghVars, fsVars, gcVars, enVars, pxVars, dlVars, pgVars, grVars, auVars>>
notSyncVars == <<apiVars, hookVars, ghVars, fsVars, gcVars, enVars, pxVars, dlVars, pgVars, grVars, auVars>>
notGhVars == <<apiVars, hookVars, syncVars, fsVars, gcVars, enVars, pxVars, dlVars, pgVars, grVars, auVars>>
notFsVars == <<apiVars, hookVars, syncVars, ghVars, gcVars, enVars, pxVars, dlVars, pgVars, grVars, auVars>>
notGcVars == <<apiVars, hookVars, syncVars, ghVars, fsVars, enVars, pxVars, dlVars, pgVars, grVars, auVars>>
notEnVars == <<apiVars, hookVars, syncVars, ghVars, fsVars, gcVars, pxVars, dlVars, pgVars, grVars, auVars>>
notPxVars == <<apiVars, hookVars, syncVars, ghVars, fsVars, gcVars, enVars, dlVars, pgVars, grVars, auVars>>
notDlVars == <<apiVars, hookVars, syncVars, ghVars, fsVars, gcVars, enVars, pxVars, pgVars, grVars, auVars>>
notPgVars == <<apiVars, hookVars, syncVars, ghVars, fsVars, gcVars, enVars, pxVars, dlVars, grVars, auVars>>
notGrVars == <<apiVars, hookVars, syncVars, ghVars, fsVars, gcVars, enVars, pxVars, dlVars, pgVars, auVars>>
notAuVars == <<apiVars, hookVars, syncVars, ghVars, fsVars, gcVars, enVars, pxVars, dlVars, pgVars, grVars>>
\* everything but the hooks and their fiber
notHookDlVars == <<apiVars, syncVars, ghVars, fsVars, gcVars, enVars, pxVars, pgVars, grVars, auVars>>

vars == <<apiVars, hookVars, syncVars, ghVars, fsVars, gcVars, enVars, pxVars, dlVars, pgVars, grVars, auVars>>

----------------------------------------------------------------------------
(* Program constants (features/playlists config).                          *)

MAX_REFRESH_ATTEMPTS == 2
MAX_REVISION_RETRIES == 3
RETRY_BASE_DELAY_MS == 100
RETRY_MAX_DELAY_MS == 2000
TRACKS_PER_PAGE == 100

(* Program constants (sync-trakt).                                         *)

OUTPUT_ITEMS_LIMIT == 20

(* Bounds of the model.                                                    *)

\* largest value of the retries parameter tried (the smallest is -1)
MaxRetriesParam == 7
\* track ids 1..NumTracks, playlist kinds 1..NumKinds, user ids 1..NumUids
NumTracks == 2
NumKinds == 2
NumUids == 2
\* calls of addTrackToPlaylist / unlikeTrack in one run
MaxCalls == 2
\* calls of refresh() in one run
MaxRefreshCalls == 1
\* changes of the uid prop in one run
MaxIdentityChanges == 1
\* calls of the delta callbacks in one run of SpecDelta
MaxDeltaCalls == 4
\* the ages tried for getGranularity are -MaxDaysAgo..MaxDaysAgo
MaxDaysAgo == 400
\* loginWithToken and logout calls in one run of SpecAuth
MaxAuthCalls == 2
\* setPage calls and prop changes of usePlaylistsPagination in one run
MaxPageInputs == 3
\* the largest argument of setPage
MaxPageArg == 3
\* events in the argument of groupHistory
MaxEvents == 4
\* episode numbers in the argument of formatEpisodeSubtitle
MaxEpisodes == 4
\* events in the history, and records in the calendar, of a sync run
MaxHistory == 22
MaxCalendar == 22
\* episodes in an argument of groupCalendarEpisodes
MaxCalEpisodes == 3
\* events in a history enrichItems is run on
MaxEnrichEvents == 4

----------------------------------------------------------------------------
(* Strings, as sequences of characters, for the error-message test.        *)

Min(a, b) == IF a < b THEN a ELSE b

Max(a, b) == IF a > b THEN a ELSE b

RECURSIVE Pow2(_)
Pow2(n) == IF n <= 0 THEN 1 ELSE 2 * Pow2(n - 1)

\* String.prototype.includes
Includes(s, sub) ==
    \E i \in 0..(Len(s) - Len(sub)) :
        \A j \in 1..Len(sub) : s[i + j] = sub[j]

KwRevision == <<"r","e","v","i","s","i","o","n">>
KwConflict == <<"c","o","n","f","l","i","c","t">>
Kw409 == <<"4","0","9">>

\* "[YandexMusicAPI] API error: "
ApiErrorPrefix ==
    <<"[","Y","a","n","d","e","x","M","u","s","i","c","A","P","I","]"," ",
      "A","P","I"," ","e","r","r","o","r",":"," ">>

\* fetchApi: `[YandexMusicAPI] API error: ${response.status} - ${text}`
ApiErrorMessage(status, text) == ApiErrorPrefix \o status \o <<" ","-"," ">> \o text

(* What the remote can answer to a request of an attempt.  conflict says   *)
(* whether the remote rejected the request because of a stale revision.    *)
RemoteErrors ==
    { \* 409 Conflict with a wrong-revision body
      [name |-> "conflict409", conflict |-> TRUE,
       msg |-> ApiErrorMessage(<<"4","0","9">>,
                 <<"w","r","o","n","g","-">> \o KwRevision)],
      \* 500, empty body
      [name |-> "server500", conflict |-> FALSE,
       msg |-> ApiErrorMessage(<<"5","0","0">>, <<>>)],
      \* 400 whose body carries a request id with the digits 409 in it
      [name |-> "badRequestReqId", conflict |-> FALSE,
       msg |-> ApiErrorMessage(<<"4","0","0">>,
                 <<"r","e","q","-","i","d",":","1","4","0","9","2">>)],
      \* fetch() itself failed: TypeError('Failed to fetch')
      [name |-> "network", conflict |-> FALSE,
       msg |-> <<"F","a","i","l","e","d"," ","t","o"," ","f","e","t","c","h">>] }

\* addTrackToPlaylist, catch block: isRevisionConflict
IsRevisionConflict(msg) ==
    \/ Includes(msg, KwRevision)
    \/ Includes(msg, KwConflict)
    \/ Includes(msg, Kw409)

\* mutant of BackoffDelay: the cap is forgotten
BackoffDelayUncapped(attempt) == RETRY_BASE_DELAY_MS * Pow2(attempt)

\* addTrackToPlaylist, catch block: the delay before the next attempt
BackoffDelay(attempt) ==
    Min(RETRY_BASE_DELAY_MS * Pow2(attempt), RETRY_MAX_DELAY_MS)

----------------------------------------------------------------------------
(* Data of the hooks                                                       *)

Tracks == 1..NumTracks
Kinds == 1..NumKinds
Uids == 1..NumUids

\* YandexPlaylist[]: the kinds listed, each with its trackCount
EmptyPlaylists == [has |-> {}, count |-> [k \in Kinds |-> 0]]

\* Map<number, Set<string>>
EmptyTracks == [has |-> {}, set |-> [k \in Kinds |-> {}]]

\* a useState<... | null> cell
Null(empty) == [has |-> FALSE, v |-> empty]
Some(x) == [has |-> TRUE, v |-> x]

\* localX ?? fetchResult.X (usePlaylistsData, the values it returns)
EffPlaylists == IF lPlaylists.has THEN lPlaylists.v ELSE fPlaylists
EffLiked == IF lLiked.has THEN lLiked.v ELSE fLiked
EffTracks == IF lTracks.has THEN lTracks.v ELSE fTracks

\* playlist p's membership set and trackCount as the hook exposes them
EffSet(p) == IF p \in EffTracks.has THEN EffTracks.set[p] ELSE {}
EffCount(p) == IF p \in EffPlaylists.has THEN EffPlaylists.count[p] ELSE 0

\* Array.prototype.filter((id) => id !== t)
RECURSIVE Without(_, _)
Without(seq, t) ==
    IF seq = <<>> THEN <<>>
    ELSE IF Head(seq) = t THEN Without(Tail(seq), t)
         ELSE <<Head(seq)>> \o Without(Tail(seq), t)

SeqHas(seq, t) == \E i \in 1..Len(seq) : seq[i] = t

OrchIdle == [pc |-> "idle", attempt |-> 0, ouid |-> 0, fetches |-> 0,
             mutSucc |-> FALSE, fresh |-> FALSE]

\* the remote store at the start: track 1 is in playlist 1, both tracks liked
SrvTracksInit == [k \in Kinds |-> IF k = 1 THEN {1} ELSE {}]
SrvLikedInit == [i \in 1..NumTracks |-> i]

\* a loadData(signal, isRefresh) invocation at its first await
NewLoad(u, isRefresh, byOrch) ==
    [luid |-> u, isRefresh |-> isRefresh, aborted |-> FALSE, phase |-> "lists",
     orch |-> byOrch, pl |-> EmptyPlaylists, liked |-> <<>>]

\* the hooks after the first commit: mounted without a user, or with user 1
\* and the load that the effect of usePlaylistsFetch started
HookInit ==
    /\ uid \in {0, 1}
    /\ alive = TRUE
    /\ idChanges = 0
    /\ srvTracks = SrvTracksInit
    /\ srvLiked = SrvLikedInit
    /\ fPlaylists = EmptyPlaylists
    /\ fLiked = <<>>
    /\ fTracks = EmptyTracks
    /\ isLoading = (uid # 0)
    /\ isRefreshing = FALSE
    /\ loads = IF uid = 0 THEN {} ELSE {NewLoad(uid, FALSE, FALSE)}
    /\ lPlaylists = Null(EmptyPlaylists)
    /\ lLiked = Null(<<>>)
    /\ lTracks = Null(EmptyTracks)
    /\ mutFlag = FALSE
    /\ orch = OrchIdle
    /\ refreshCalls = 0
    /\ pendingAddsRef = {}
    /\ pendingUnlikesRef = {}
    /\ pendingAdds = {}
    /\ pendingUnlikes = {}
    /\ inFlightAdds = [t \in Tracks |-> 0]
    /\ inFlightUnlikes = [t \in Tracks |-> 0]
    /\ ctlAdd = [k \in Tracks \X Kinds |-> 0]
    /\ ctlUnlike = [t \in Tracks |-> 0]
    /\ isMountedRef = TRUE
    /\ calls = <<>>

\* the hooks are not part of SpecApi
HookIdle == HookInit /\ uid = 0

\* the sync script and its functions are not part of a specification of the
\* playlist sorter
SyncParked ==
    /\ syPc = "done"
    /\ syGhRepo = FALSE
    /\ syAccess = 0
    /\ syRefresh = 0
    /\ syStore = [access |-> 0, refresh |-> 0]
    /\ syLog = <<>>
    /\ syFail = "none"
    /\ syP1 = [r \in {"history", "stats", "calendar"} |-> "idle"]
    /\ syHistory = <<>>
    /\ syRawCal = [episodes |-> <<>>, movies |-> <<>>]
    /\ sySeasons = <<>>
    /\ syRatings = "idle"
    /\ syOut = <<>>

GhParked ==
    /\ ghInput = <<>>
    /\ ghDone = TRUE
    /\ ghItems = <<>>

FsParked ==
    /\ fsSeason = 0
    /\ fsEpisodes = <<>>
    /\ fsDone = TRUE
    /\ fsResult = <<>>

GcParked ==
    /\ gcInput = <<>>
    /\ gcDone = TRUE
    /\ gcGroups = <<>>

EnParked ==
    /\ enHistory = <<>>
    /\ enSeasons = <<>>
    /\ enRatingItems = <<>>
    /\ enDone = TRUE
    /\ enItems = <<>>

\* a URL string that parses, by its parts (port 0: none written), and a string
\* that does not parse as a URL; null is a parameter or header that is absent
UrlString(scheme, host, port, path) ==
    [null |-> FALSE, parses |-> TRUE, empty |-> FALSE, scheme |-> scheme,
     host |-> host, port |-> port, path |-> path]
NotUrl(isEmpty) ==
    [null |-> FALSE, parses |-> FALSE, empty |-> isEmpty, scheme |-> "", host |-> "",
     port |-> 0, path |-> <<>>]
NoString ==
    [null |-> TRUE, parses |-> FALSE, empty |-> FALSE, scheme |-> "", host |-> "",
     port |-> 0, path |-> <<>>]

PxParked ==
    /\ pxMethod = "GET"
    /\ pxOrigin = NoString
    /\ pxPath = <<>>
    /\ pxParam = NoString
    /\ pxPc = "done"
    /\ pxUpstream = <<>>
    /\ pxStatus = 0

\* useYandexAuth is not mounted
AuParked ==
    /\ auStored = [has |-> FALSE, syntax |-> "empty", value |-> 0]
    /\ auAuth = [token |-> 0, uid |-> 0]
    /\ auIsLoading = FALSE
    /\ auError = "none"
    /\ auInitialized = TRUE
    /\ auFound = [has |-> FALSE, syntax |-> "empty", value |-> 0]
    /\ auMounted = FALSE
    /\ auOps = {}
    /\ auRequests = 0
    /\ auCalls = 0

\* getGranularity is not called
GrParked == grDaysAgo = 0 /\ grDone = TRUE /\ grResult = "none"

\* usePlaylistsPagination is not mounted
PgParked ==
    /\ trackIds = [v |-> 0, n |-> 0]
    /\ skipLoading = TRUE
    /\ currentPage = 1
    /\ currentPageTracks = <<>>
    /\ isLoadingPage = FALSE
    /\ prevTrackIdsRef = 0
    /\ abortControllerRef = 0
    /\ pageLoads = {}
    /\ pageDeps = [v |-> 0, page |-> 1, skip |-> TRUE]
    /\ pageRequested = [page |-> 0, v |-> 0, n |-> 0, failed |-> FALSE]
    /\ pageCalls = 0
    /\ pageInputs = 0

\* no update is queued and no delta was applied
DlParked == fiberLanes = FALSE /\ deltaCalls = 0

ScriptParked == SyncParked /\ GhParked /\ FsParked /\ GcParked /\ EnParked

----------------------------------------------------------------------------
(* YandexMusicAPI.addTrackToPlaylist(uid, kind, trackId, signal, retries)  *)

RetriesChoices == (-1)..MaxRetriesParam

ApiInit ==
    /\ apiPc = "start"
    /\ apiRetries \in RetriesChoices
    /\ apiAttempt = 0
    /\ apiAborted \in BOOLEAN
    /\ apiResult = "none"
    /\ apiRevFetches = 0
    /\ apiSubmits = 0
    /\ apiAccepted = 0
    /\ apiDelays = <<>>
    /\ apiLog = <<>>
    /\ HookIdle
    /\ ScriptParked /\ PxParked
    /\ DlParked /\ PgParked /\ GrParked /\ AuParked

\* for (attempt...; attempt < retries; ...) { this.checkAborted(signal); GET ...
ApiLoopHead ==
    /\ apiPc = "start"
    /\ IF apiAttempt < apiRetries
         THEN IF apiAborted
                THEN /\ apiPc' = "done"
                     /\ apiResult' = "abort"
                     /\ UNCHANGED apiRevFetches
                ELSE /\ apiPc' = "getRev"
                     /\ apiRevFetches' = apiRevFetches + 1
                     /\ UNCHANGED apiResult
         ELSE \* the loop ends without a return or a throw: resolves undefined
              /\ apiPc' = "done"
              /\ apiResult' = "ok"
              /\ UNCHANGED apiRevFetches
    /\ UNCHANGED <<apiRetries, apiAttempt, apiAborted, apiSubmits, apiAccepted,
                   apiDelays, apiLog>>
    /\ UNCHANGED notApiVars

\* the GET of the revision succeeded: submit the diff tagged with it
ApiRevOk ==
    /\ apiPc = "getRev"
    /\ apiPc' = "post"
    /\ apiSubmits' = apiSubmits + 1
    /\ UNCHANGED <<apiRetries, apiAttempt, apiAborted, apiResult, apiRevFetches,
                   apiAccepted, apiDelays, apiLog>>
    /\ UNCHANGED notApiVars

\* mutant of ApiCatch: the last attempt is not recognised, the loop just ends
ApiCatchNoCeiling(e, stage) ==
    /\ apiLog' = Append(apiLog, [stage |-> stage, name |-> e.name])
    /\ IF ~IsRevisionConflict(e.msg)
         THEN /\ apiPc' = "done"
              /\ apiResult' = "error"
              /\ UNCHANGED apiDelays
         ELSE /\ apiPc' = "delay"
              /\ apiDelays' = Append(apiDelays, BackoffDelay(apiAttempt))
              /\ UNCHANGED apiResult
    /\ UNCHANGED <<apiRetries, apiAttempt, apiAborted, apiRevFetches, apiSubmits,
                   apiAccepted>>
    /\ UNCHANGED notApiVars

\* the catch block, for an error that is not an AbortError
ApiCatch(e, stage) ==
    /\ apiLog' = Append(apiLog, [stage |-> stage, name |-> e.name])
    /\ IF ~IsRevisionConflict(e.msg)
         THEN /\ apiPc' = "done"
              /\ apiResult' = "error"
              /\ UNCHANGED apiDelays
         ELSE IF apiAttempt = apiRetries - 1
                THEN /\ apiPc' = "done"
                     /\ apiResult' = "exhausted"
                     /\ UNCHANGED apiDelays
                ELSE /\ apiPc' = "delay"
                     /\ apiDelays' = Append(apiDelays, BackoffDelay(apiAttempt))
                     /\ UNCHANGED apiResult
    /\ UNCHANGED <<apiRetries, apiAttempt, apiAborted, apiRevFetches, apiSubmits,
                   apiAccepted>>
    /\ UNCHANGED notApiVars

\* the GET of the revision failed
ApiRevFail ==
    /\ apiPc = "getRev"
    /\ \E e \in RemoteErrors : ApiCatch(e, "get")

\* the remote accepted the diff: return
ApiPostOk ==
    /\ apiPc = "post"
    /\ apiPc' = "done"
    /\ apiResult' = "ok"
    /\ apiAccepted' = apiAccepted + 1
    /\ apiLog' = Append(apiLog, [stage |-> "post", name |-> "accepted"])
    /\ UNCHANGED <<apiRetries, apiAttempt, apiAborted, apiRevFetches, apiSubmits,
                   apiDelays>>
    /\ UNCHANGED notApiVars

\* the remote rejected the diff
ApiPostFail ==
    /\ apiPc = "post"
    /\ \E e \in RemoteErrors : ApiCatch(e, "post")

\* abortableDelay resolved: attempt++ and back to the loop head
ApiDelayDone ==
    /\ apiPc = "delay"
    /\ apiPc' = "start"
    /\ apiAttempt' = apiAttempt + 1
    /\ UNCHANGED <<apiRetries, apiAborted, apiResult, apiRevFetches, apiSubmits,
                   apiAccepted, apiDelays, apiLog>>
    /\ UNCHANGED notApiVars

\* controller.abort() while a request or the delay is awaited: the awaited
\* promise rejects with an AbortError, which the catch block rethrows
ApiAbort ==
    /\ apiPc \in {"getRev", "post", "delay"}
    /\ apiAborted' = TRUE
    /\ apiPc' = "done"
    /\ apiResult' = "abort"
    /\ UNCHANGED <<apiRetries, apiAttempt, apiRevFetches, apiSubmits, apiAccepted,
                   apiDelays, apiLog>>
    /\ UNCHANGED notApiVars

ApiNext ==
    \/ ApiLoopHead
    \/ ApiRevOk
    \/ ApiRevFail
    \/ ApiPostOk
    \/ ApiPostFail
    \/ ApiDelayDone
    \/ ApiAbort

SpecApi == ApiInit /\ [][ApiNext]_vars

\* every request is eventually answered and every timer fires
SpecApiFair == SpecApi /\ WF_vars(ApiNext)

----------------------------------------------------------------------------
(* The hooks: scheduling                                                   *)

\* the API call is not part of Spec
ApiParked ==
    /\ apiPc = "done"
    /\ apiRetries = MAX_REVISION_RETRIES
    /\ apiAttempt = 0
    /\ apiAborted = FALSE
    /\ apiResult = "none"
    /\ apiRevFetches = 0
    /\ apiSubmits = 0
    /\ apiAccepted = 0
    /\ apiDelays = <<>>
    /\ apiLog = <<>>

Init ==
    /\ HookInit /\ ApiParked /\ ScriptParked /\ PxParked /\ DlParked /\ PgParked
    /\ GrParked /\ AuParked

\* a continuation that runs in the microtask checkpoint of the current task is
\* outstanding: an aborted mutation or load, or the refresh() loop whose awaited
\* loadData has returned
MicrotaskPending ==
    \/ \E i \in DOMAIN calls : calls[i].st = "aborted"
    \/ \E l \in loads : l.aborted
    \/ orch.pc = "resume"

\* a refresh() of usePlaylistsData has been called and has not returned
RefreshInProgress == orch.pc # "idle"

\* EffSet and EffCount in the next state
EffSetNext(p) == IF p \in EffTracks'.has THEN EffTracks'.set[p] ELSE {}
EffCountNext(p) == IF p \in EffPlaylists'.has THEN EffPlaylists'.count[p] ELSE 0

\* bookkeeping for the calls in flight: clean says that nothing has changed the
\* playlist's exposed membership set and trackCount since the call was made
Mark(cs) ==
    [i \in DOMAIN cs |->
        IF /\ cs[i].st \in {"inflight", "aborted"}
           /\ cs[i].kind = "add"
           /\ cs[i].clean
           /\ (EffSetNext(cs[i].p) # EffSet(cs[i].p)
               \/ EffCountNext(cs[i].p) # EffCount(cs[i].p))
          THEN [cs[i] EXCEPT !.clean = FALSE, !.preSet = {}, !.preCount = 0]
          ELSE cs[i]]

----------------------------------------------------------------------------
(* usePlaylistsFetch                                                       *)

\* what GET /users/{uid}/playlists/list answers
ServerPlaylists ==
    [has |-> Kinds, count |-> [k \in Kinds |-> Cardinality(srvTracks[k])]]

\* abortControllerRef.current?.abort()
AbortLoads(L) == { [l EXCEPT !.aborted = TRUE] : l \in L }

\* loadData returned: the refresh() loop that awaits it resumes
\* (fresh: the load got past its first await, so it wrote what it fetched)
AfterLoad(l) ==
    IF l.orch THEN [orch EXCEPT !.pc = "resume", !.fresh = (l.phase = "tracks")]
              ELSE orch

\* loadData, finally block
LoadFinally(l) ==
    /\ loads' = loads \ {l}
    /\ isLoading' = FALSE
    /\ isRefreshing' = FALSE
    /\ orch' = AfterLoad(l)

\* loadData: setPlaylists / setLikedTrackIds / setPlaylistTracks, with the
\* playlists whose track request was fulfilled
LoadWrite(l, fulfilled) ==
    /\ fPlaylists' = l.pl
    /\ fLiked' = l.liked
    /\ fTracks' = [has |-> fulfilled,
                   set |-> [k \in Kinds |-> IF k \in fulfilled THEN srvTracks[k] ELSE {}]]

\* getPlaylists and getLikedTrackIds answered: request the tracks of the batch
\* (NumKinds <= PLAYLIST_BATCH_SIZE: one batch, which is the last)
LoadLists(l) ==
    /\ ~MicrotaskPending
    /\ ~l.aborted /\ l.phase = "lists"
    /\ loads' = (loads \ {l}) \cup
                {[l EXCEPT !.phase = "tracks", !.pl = ServerPlaylists, !.liked = srvLiked]}
    /\ UNCHANGED <<uid, alive, idChanges, srvTracks, srvLiked, fPlaylists, fLiked,
                   fTracks, isLoading, isRefreshing, lPlaylists, lLiked, lTracks,
                   mutFlag, orch, refreshCalls, pendingAddsRef, pendingUnlikesRef,
                   pendingAdds, pendingUnlikes, inFlightAdds, inFlightUnlikes,
                   ctlAdd, ctlUnlike, isMountedRef, calls>>
    /\ UNCHANGED notHookVars

\* getPlaylists or getLikedTrackIds failed: catch (setError), finally
LoadListsFail(l) ==
    /\ ~MicrotaskPending
    /\ ~l.aborted /\ l.phase = "lists"
    /\ LoadFinally(l)
    /\ UNCHANGED <<uid, alive, idChanges, srvTracks, srvLiked, fPlaylists, fLiked,
                   fTracks, lPlaylists, lLiked, lTracks, mutFlag, refreshCalls,
                   pendingAddsRef, pendingUnlikesRef, pendingAdds, pendingUnlikes,
                   inFlightAdds, inFlightUnlikes, ctlAdd, ctlUnlike, isMountedRef,
                   calls>>
    /\ UNCHANGED notHookVars

\* Promise.allSettled of the batch settled; the requests of `failed` rejected
LoadTracks(l) ==
    /\ ~MicrotaskPending
    /\ ~l.aborted /\ l.phase = "tracks"
    /\ \E failed \in SUBSET Kinds : LoadWrite(l, Kinds \ failed)
    /\ LoadFinally(l)
    /\ UNCHANGED <<uid, alive, idChanges, srvTracks, srvLiked, lPlaylists, lLiked,
                   lTracks, mutFlag, refreshCalls, pendingAddsRef,
                   pendingUnlikesRef, pendingAdds, pendingUnlikes, inFlightAdds,
                   inFlightUnlikes, ctlAdd, ctlUnlike, isMountedRef>>
    /\ calls' = Mark(calls)
    /\ UNCHANGED notHookVars

\* the continuation of a loadData whose signal was aborted.  At the first await
\* Promise.all rejects with the AbortError, which the catch block swallows.  At the
\* batch, Promise.allSettled fulfils with the aborted requests rejected; the batch is
\* the last one, so no signal.aborted test follows and the state is written, with
\* the playlists whose tracks had `arrived` before the abort.
LoadAbortedContinue(l) ==
    /\ l.aborted
    /\ IF l.phase = "lists"
         THEN UNCHANGED <<fPlaylists, fLiked, fTracks>>
         ELSE \E arrived \in (SUBSET Kinds) \ {Kinds} : LoadWrite(l, arrived)
    /\ LoadFinally(l)
    /\ UNCHANGED <<uid, alive, idChanges, srvTracks, srvLiked, lPlaylists, lLiked,
                   lTracks, mutFlag, refreshCalls, pendingAddsRef,
                   pendingUnlikesRef, pendingAdds, pendingUnlikes, inFlightAdds,
                   inFlightUnlikes, ctlAdd, ctlUnlike, isMountedRef>>
    /\ calls' = Mark(calls)
    /\ UNCHANGED notHookVars

\* usePlaylistsFetch.refresh as the refresh() loop calls it, with the uid its
\* loadData closed over: abort the current load, start loadData(signal, true)
\* (which returns at once without api or uid) and await it
FetchRefresh(u, attempt, fetches) ==
    /\ loads' = AbortLoads(loads) \cup (IF u = 0 THEN {} ELSE {NewLoad(u, TRUE, TRUE)})
    /\ isLoading' = IF u = 0 THEN isLoading ELSE TRUE
    /\ isRefreshing' = IF u = 0 THEN isRefreshing ELSE TRUE
    /\ orch' = [pc |-> IF u = 0 THEN "resume" ELSE "waiting", attempt |-> attempt,
                ouid |-> u, fetches |-> fetches + (IF u = 0 THEN 0 ELSE 1),
                mutSucc |-> FALSE, fresh |-> FALSE]

----------------------------------------------------------------------------
(* usePlaylistsData: refresh()                                             *)

\* refresh() is called: attempt 0
RefreshCall ==
    /\ alive /\ ~MicrotaskPending
    /\ orch.pc = "idle"
    /\ refreshCalls < MaxRefreshCalls
    /\ refreshCalls' = refreshCalls + 1
    /\ mutFlag' = FALSE
    /\ FetchRefresh(uid, 0, 0)
    /\ UNCHANGED <<uid, alive, idChanges, srvTracks, srvLiked, fPlaylists, fLiked,
                   fTracks, lPlaylists, lLiked, lTracks, pendingAddsRef,
                   pendingUnlikesRef, pendingAdds, pendingUnlikes, inFlightAdds,
                   inFlightUnlikes, ctlAdd, ctlUnlike, isMountedRef, calls>>
    /\ UNCHANGED notHookVars

\* mutant of OrchResume: the loop has no attempt ceiling
OrchResumeNoCeiling ==
    /\ orch.pc = "resume"
    /\ lPlaylists' = Null(EmptyPlaylists)
    /\ lLiked' = Null(<<>>)
    /\ lTracks' = Null(EmptyTracks)
    /\ IF ~mutFlag
         THEN /\ orch' = OrchIdle
              /\ UNCHANGED <<loads, isLoading, isRefreshing, mutFlag>>
         ELSE /\ mutFlag' = FALSE
              /\ FetchRefresh(orch.ouid, orch.attempt + 1, orch.fetches)
    /\ UNCHANGED <<uid, alive, idChanges, srvTracks, srvLiked, fPlaylists, fLiked,
                   fTracks, refreshCalls, pendingAddsRef, pendingUnlikesRef,
                   pendingAdds, pendingUnlikes, inFlightAdds, inFlightUnlikes,
                   ctlAdd, ctlUnlike, isMountedRef>>
    /\ calls' = Mark(calls)
    /\ UNCHANGED notHookVars

\* the loop after `await fetchResult.refresh()`: clear the local state, then
\* either leave the loop or run the next attempt
OrchResume ==
    /\ orch.pc = "resume"
    /\ lPlaylists' = Null(EmptyPlaylists)
    /\ lLiked' = Null(<<>>)
    /\ lTracks' = Null(EmptyTracks)
    /\ IF ~mutFlag \/ orch.attempt = MAX_REFRESH_ATTEMPTS - 1
         THEN /\ orch' = OrchIdle
              /\ UNCHANGED <<loads, isLoading, isRefreshing, mutFlag>>
         ELSE /\ mutFlag' = FALSE
              /\ FetchRefresh(orch.ouid, orch.attempt + 1, orch.fetches)
    /\ UNCHANGED <<uid, alive, idChanges, srvTracks, srvLiked, fPlaylists, fLiked,
                   fTracks, refreshCalls, pendingAddsRef, pendingUnlikesRef,
                   pendingAdds, pendingUnlikes, inFlightAdds, inFlightUnlikes,
                   ctlAdd, ctlUnlike, isMountedRef>>
    /\ calls' = Mark(calls)
    /\ UNCHANGED notHookVars

----------------------------------------------------------------------------
(* usePlaylistsData: the mutation callbacks                                *)

\* base.map((p) => p.kind === playlistKind ? {...p, trackCount: f(p)} : p)
MapCount(pl, p, d) ==
    [pl EXCEPT !.count[p] = IF p \in pl.has THEN Max(0, @ + d) ELSE @]

\* onTrackAdded.  The callbacks are memoised with no dependencies, so the
\* localPlaylists they read is the null of the first render: the existence
\* test always sees fetchedDataRef.current.playlists.
OnTrackAdded(t, p) ==
    IF p \notin fPlaylists.has
      THEN UNCHANGED <<lTracks, lPlaylists>>
      ELSE LET base == EffTracks
               tracks == IF p \in base.has THEN base.set[p] ELSE {}
               wasActuallyAdded == t \notin tracks
           IN /\ lTracks' = Some([has |-> base.has \cup {p},
                                  set |-> [base.set EXCEPT ![p] = tracks \cup {t}]])
              /\ lPlaylists' = IF wasActuallyAdded
                                 THEN Some(MapCount(EffPlaylists, p, 1))
                                 ELSE lPlaylists

\* onTrackAddRollback
OnTrackAddRollback(t, p) ==
    IF p \notin fPlaylists.has
      THEN UNCHANGED <<lTracks, lPlaylists>>
      ELSE LET base == EffTracks
               tracks == IF p \in base.has THEN base.set[p] ELSE {}
               wasActuallyInSet == t \in tracks
           IN /\ lTracks' = Some([has |-> base.has \cup {p},
                                  set |-> [base.set EXCEPT ![p] = tracks \ {t}]])
              /\ lPlaylists' = IF wasActuallyInSet
                                 THEN Some(MapCount(EffPlaylists, p, -1))
                                 ELSE lPlaylists

\* onTrackUnliked
OnTrackUnliked(t) == lLiked' = Some(Without(EffLiked, t))

\* onTrackUnlikedRollback
OnTrackUnlikedRollback(t) ==
    lLiked' = Some(IF SeqHas(EffLiked, t) THEN EffLiked ELSE Append(EffLiked, t))

\* the callback cb ("apply" | "rollback" | "duringRefresh" | "none") of a
\* mutation of `kind` is invoked
InvokeCallback(cb, kind, t, p) ==
    /\ IF cb = "apply" /\ kind = "add" THEN OnTrackAdded(t, p)
       ELSE IF cb = "rollback" /\ kind = "add" THEN OnTrackAddRollback(t, p)
       ELSE UNCHANGED <<lTracks, lPlaylists>>
    /\ IF cb = "apply" /\ kind = "unlike" THEN OnTrackUnliked(t)
       ELSE IF cb = "rollback" /\ kind = "unlike" THEN OnTrackUnlikedRollback(t)
       ELSE UNCHANGED lLiked
    \* onMutationDuringRefresh
    /\ mutFlag' = IF cb = "duringRefresh" THEN TRUE ELSE mutFlag

----------------------------------------------------------------------------
(* usePlaylistsMutations                                                   *)

\* the promise of call i
PromOf(cs, i) == cs[i].prom

\* the MutationResult of call i ("none": not settled yet)
ResultOf(cs, i) == IF cs[i].prom = 0 THEN cs[i].result ELSE cs[cs[i].prom].result

\* the earliest call with the same input that has not settled, 0 if none
OverlapOf(kind, t, p) ==
    LET same == { i \in DOMAIN calls :
                    /\ calls[i].kind = kind /\ calls[i].t = t /\ calls[i].p = p
                    /\ ResultOf(calls, i) = "none" }
    IN IF same = {} THEN 0 ELSE CHOOSE i \in same : \A j \in same : i <= j

\* mutant of ExistingAdd: the in-flight map is not consulted
ExistingAddNone(t) == 0

\* inFlightAddsRef.current.get(trackId) / inFlightUnlikesRef.current.get(trackId)
ExistingAdd(t) == inFlightAdds[t]
ExistingUnlike(t) == inFlightUnlikes[t]

\* `if (!api || !uid) return { success: false, error: 'API not initialized' }`
NotInitCall(kind, t, p, over) ==
    [kind |-> kind, t |-> t, p |-> p, prom |-> 0, st |-> "settled",
     refreshing |-> FALSE, result |-> "notinit", cb |-> "none", rip |-> FALSE,
     over |-> over, preSet |-> {}, preCount |-> 0, clean |-> FALSE]

\* `if (existing) return existing`
JoinedCall(kind, t, p, existing, over) ==
    [kind |-> kind, t |-> t, p |-> p, prom |-> existing, st |-> "joined",
     refreshing |-> FALSE, result |-> "none", cb |-> "none", rip |-> FALSE,
     over |-> over, preSet |-> {}, preCount |-> 0, clean |-> FALSE]

\* the call creates the promise id and starts the remote operation; the
\* callback closed over the isRefreshing of the render it was created in
CreatorCall(kind, t, p, id, over) ==
    [kind |-> kind, t |-> t, p |-> p, prom |-> id, st |-> "inflight",
     refreshing |-> isRefreshing, result |-> "none", cb |-> "none", rip |-> FALSE,
     over |-> over,
     preSet |-> IF kind = "add" THEN EffSet(p) ELSE {},
     preCount |-> IF kind = "add" THEN EffCount(p) ELSE 0,
     clean |-> kind = "add"]

\* addTrackToPlaylist(trackId, playlistKind) of the hook is called
CallAdd(t, p) ==
    /\ alive /\ ~MicrotaskPending
    /\ Len(calls) < MaxCalls
    /\ LET id == Len(calls) + 1
           over == OverlapOf("add", t, p)
       IN IF uid = 0
            THEN /\ calls' = Append(calls, NotInitCall("add", t, p, over))
                 /\ UNCHANGED <<pendingAddsRef, pendingAdds, ctlAdd, inFlightAdds>>
            ELSE IF ExistingAdd(t) # 0
                   THEN /\ calls' = Append(calls, JoinedCall("add", t, p, ExistingAdd(t), over))
                        /\ UNCHANGED <<pendingAddsRef, pendingAdds, ctlAdd, inFlightAdds>>
                   ELSE /\ pendingAddsRef' = pendingAddsRef \cup {t}
                        /\ pendingAdds' = pendingAdds \cup {t}
                        /\ ctlAdd' = [ctlAdd EXCEPT ![<<t, p>>] = id]
                        /\ inFlightAdds' = [inFlightAdds EXCEPT ![t] = id]
                        /\ calls' = Append(calls, CreatorCall("add", t, p, id, over))
    /\ UNCHANGED <<uid, alive, idChanges, srvTracks, srvLiked, fPlaylists, fLiked,
                   fTracks, isLoading, isRefreshing, loads, lPlaylists, lLiked,
                   lTracks, mutFlag, orch, refreshCalls, pendingUnlikesRef,
                   pendingUnlikes, inFlightUnlikes, ctlUnlike, isMountedRef>>
    /\ UNCHANGED notHookVars

\* unlikeTrack(trackId) of the hook is called
CallUnlike(t) ==
    /\ alive /\ ~MicrotaskPending
    /\ Len(calls) < MaxCalls
    /\ LET id == Len(calls) + 1
           over == OverlapOf("unlike", t, 0)
       IN IF uid = 0
            THEN /\ calls' = Append(calls, NotInitCall("unlike", t, 0, over))
                 /\ UNCHANGED <<pendingUnlikesRef, pendingUnlikes, ctlUnlike, inFlightUnlikes>>
            ELSE IF ExistingUnlike(t) # 0
                   THEN /\ calls' = Append(calls, JoinedCall("unlike", t, 0, ExistingUnlike(t), over))
                        /\ UNCHANGED <<pendingUnlikesRef, pendingUnlikes, ctlUnlike, inFlightUnlikes>>
                   ELSE /\ pendingUnlikesRef' = pendingUnlikesRef \cup {t}
                        /\ pendingUnlikes' = pendingUnlikes \cup {t}
                        /\ ctlUnlike' = [ctlUnlike EXCEPT ![t] = id]
                        /\ inFlightUnlikes' = [inFlightUnlikes EXCEPT ![t] = id]
                        /\ calls' = Append(calls, CreatorCall("unlike", t, 0, id, over))
    /\ UNCHANGED <<uid, alive, idChanges, srvTracks, srvLiked, fPlaylists, fLiked,
                   fTracks, isLoading, isRefreshing, loads, lPlaylists, lLiked,
                   lTracks, mutFlag, orch, refreshCalls, pendingAddsRef,
                   pendingAdds, inFlightAdds, ctlAdd, isMountedRef>>
    /\ UNCHANGED notHookVars

\* mutant of SettleCallback: the catch block does not test for the AbortError
SettleCallbackNoAbortTest(outcome, mounted, refreshing) ==
    IF outcome = "ok"
      THEN IF mounted THEN (IF ~refreshing THEN "apply" ELSE "duringRefresh")
           ELSE "none"
    ELSE IF mounted /\ ~refreshing THEN "rollback" ELSE "none"

\* try / catch: the callback the continuation invokes when the awaited API call
\* ends with outcome "ok", "err" (any error but an AbortError) or "abort"
SettleCallback(outcome, mounted, refreshing) ==
    IF outcome = "ok"
      THEN IF mounted THEN (IF ~refreshing THEN "apply" ELSE "duringRefresh")
           ELSE "none"
    ELSE IF outcome = "abort" THEN "none"
    ELSE IF mounted /\ ~refreshing THEN "rollback" ELSE "none"

\* mutant of SettleResult: errors other than the AbortError are rethrown
SettleResultRethrow(outcome) ==
    IF outcome = "ok" THEN "ok"
    ELSE IF outcome = "abort" THEN "cancelled"
    ELSE "rejected"

\* try / catch: the MutationResult the promise resolves to ("rejected": the
\* promise rejects)
SettleResult(outcome) ==
    IF outcome = "ok" THEN "ok"
    ELSE IF outcome = "abort" THEN "cancelled"
    ELSE "error"

\* the remote store after the request of call c, which it applied or not
ServerAfter(c, applied) ==
    /\ srvTracks' = IF applied /\ c.kind = "add"
                      THEN [srvTracks EXCEPT ![c.p] = @ \cup {c.t}]
                      ELSE srvTracks
    /\ srvLiked' = IF applied /\ c.kind = "unlike"
                     THEN Without(srvLiked, c.t)
                     ELSE srvLiked

\* mutant of Settle: finally leaves the entry of the in-flight map in place
SettleKeepsInFlight(i, outcome) ==
    LET c == calls[i]
        cb == SettleCallback(outcome, isMountedRef, c.refreshing)
    IN /\ InvokeCallback(cb, c.kind, c.t, c.p)
       /\ orch' = IF outcome = "ok" /\ orch.pc = "waiting"
                    THEN [orch EXCEPT !.mutSucc = TRUE] ELSE orch
       \* finally
       /\ IF c.kind = "add"
            THEN /\ pendingAddsRef' = pendingAddsRef \ {c.t}
                 /\ ctlAdd' = [ctlAdd EXCEPT ![<<c.t, c.p>>] = 0]
                 /\ inFlightAdds' = inFlightAdds
                 /\ pendingAdds' = IF isMountedRef THEN pendingAdds \ {c.t} ELSE pendingAdds
                 /\ UNCHANGED <<pendingUnlikesRef, ctlUnlike, inFlightUnlikes, pendingUnlikes>>
            ELSE /\ pendingUnlikesRef' = pendingUnlikesRef \ {c.t}
                 /\ ctlUnlike' = [ctlUnlike EXCEPT ![c.t] = 0]
                 /\ inFlightUnlikes' = inFlightUnlikes
                 /\ pendingUnlikes' = IF isMountedRef THEN pendingUnlikes \ {c.t}
                                      ELSE pendingUnlikes
                 /\ UNCHANGED <<pendingAddsRef, ctlAdd, inFlightAdds, pendingAdds>>
       /\ UNCHANGED <<uid, alive, idChanges, fPlaylists, fLiked, fTracks, isLoading,
                      isRefreshing, loads, refreshCalls, isMountedRef>>
       /\ calls' = Mark([calls EXCEPT ![i] =
                      [c EXCEPT !.st = "settled", !.result = SettleResult(outcome),
                                !.cb = cb, !.rip = RefreshInProgress,
                                !.refreshing = FALSE, !.preSet = {}, !.preCount = 0,
                                !.clean = FALSE]])
       /\ UNCHANGED notHookVars

\* the continuation of the promise of call i after `await api....`: try or
\* catch, then finally
Settle(i, outcome) ==
    LET c == calls[i]
        cb == SettleCallback(outcome, isMountedRef, c.refreshing)
    IN /\ InvokeCallback(cb, c.kind, c.t, c.p)
       /\ orch' = IF outcome = "ok" /\ orch.pc = "waiting"
                    THEN [orch EXCEPT !.mutSucc = TRUE] ELSE orch
       \* finally
       /\ IF c.kind = "add"
            THEN /\ pendingAddsRef' = pendingAddsRef \ {c.t}
                 /\ ctlAdd' = [ctlAdd EXCEPT ![<<c.t, c.p>>] = 0]
                 /\ inFlightAdds' = [inFlightAdds EXCEPT ![c.t] = 0]
                 /\ pendingAdds' = IF isMountedRef THEN pendingAdds \ {c.t} ELSE pendingAdds
                 /\ UNCHANGED <<pendingUnlikesRef, ctlUnlike, inFlightUnlikes, pendingUnlikes>>
            ELSE /\ pendingUnlikesRef' = pendingUnlikesRef \ {c.t}
                 /\ ctlUnlike' = [ctlUnlike EXCEPT ![c.t] = 0]
                 /\ inFlightUnlikes' = [inFlightUnlikes EXCEPT ![c.t] = 0]
                 /\ pendingUnlikes' = IF isMountedRef THEN pendingUnlikes \ {c.t}
                                      ELSE pendingUnlikes
                 /\ UNCHANGED <<pendingAddsRef, ctlAdd, inFlightAdds, pendingAdds>>
       /\ UNCHANGED <<uid, alive, idChanges, fPlaylists, fLiked, fTracks, isLoading,
                      isRefreshing, loads, refreshCalls, isMountedRef>>
       /\ calls' = Mark([calls EXCEPT ![i] =
                      [c EXCEPT !.st = "settled", !.result = SettleResult(outcome),
                                !.cb = cb, !.rip = RefreshInProgress,
                                !.refreshing = FALSE, !.preSet = {}, !.preCount = 0,
                                !.clean = FALSE]])
       /\ UNCHANGED notHookVars

\* the remote accepted the insert: api.addTrackToPlaylist resolved
AddSucceed(i) ==
    /\ ~MicrotaskPending
    /\ calls[i].kind = "add" /\ calls[i].st = "inflight"
    /\ ServerAfter(calls[i], TRUE)
    /\ Settle(i, "ok")

\* api.addTrackToPlaylist rejected with an error that is not an AbortError
AddFail(i) ==
    /\ ~MicrotaskPending
    /\ calls[i].kind = "add" /\ calls[i].st = "inflight"
    /\ ServerAfter(calls[i], FALSE)
    /\ Settle(i, "err")

\* the remote removed the like: api.unlikeTrack resolved
UnlikeSucceed(i) ==
    /\ ~MicrotaskPending
    /\ calls[i].kind = "unlike" /\ calls[i].st = "inflight"
    /\ ServerAfter(calls[i], TRUE)
    /\ Settle(i, "ok")

\* api.unlikeTrack rejected with an error that is not an AbortError
UnlikeFail(i) ==
    /\ ~MicrotaskPending
    /\ calls[i].kind = "unlike" /\ calls[i].st = "inflight"
    /\ ServerAfter(calls[i], FALSE)
    /\ Settle(i, "err")

\* the API call of an aborted mutation rejected with the AbortError; the
\* remote may have applied the request before the abort
SettleAborted(i) ==
    /\ calls[i].st = "aborted"
    /\ \E applied \in BOOLEAN : ServerAfter(calls[i], applied)
    /\ Settle(i, "abort")

\* the cleanup of the effect on [uid]: abort every controller of
\* abortControllersRef, clear the map and the pending sets
MutationsCleanup ==
    /\ ctlAdd' = [k \in Tracks \X Kinds |-> 0]
    /\ ctlUnlike' = [t \in Tracks |-> 0]
    /\ pendingAddsRef' = {}
    /\ pendingUnlikesRef' = {}
    /\ pendingAdds' = {}
    /\ pendingUnlikes' = {}
    /\ calls' = Mark([i \in DOMAIN calls |->
                   IF /\ calls[i].st = "inflight"
                      /\ \/ \E k \in Tracks \X Kinds : ctlAdd[k] = i
                         \/ \E t \in Tracks : ctlUnlike[t] = i
                     THEN [calls[i] EXCEPT !.st = "aborted"]
                     ELSE calls[i]])

\* the component re-renders with another uid (login, logout, another user):
\* the effects that depend on it run their cleanup and then their body
ChangeIdentity(u) ==
    /\ alive /\ ~MicrotaskPending
    /\ idChanges < MaxIdentityChanges
    /\ u # uid
    /\ uid' = u
    /\ idChanges' = idChanges + 1
    \* usePlaylistsData, effect on [uid]
    /\ lPlaylists' = Null(EmptyPlaylists)
    /\ lLiked' = Null(<<>>)
    /\ lTracks' = Null(EmptyTracks)
    \* usePlaylistsFetch, effect on [loadData]: abort, then loadData(signal)
    /\ loads' = AbortLoads(loads) \cup (IF u = 0 THEN {} ELSE {NewLoad(u, FALSE, FALSE)})
    /\ isLoading' = IF u = 0 THEN isLoading ELSE TRUE
    \* usePlaylistsMutations, effect on [uid]: cleanup, then isMountedRef = true
    /\ isMountedRef' = TRUE
    /\ UNCHANGED <<alive, srvTracks, srvLiked, fPlaylists, fLiked, fTracks,
                   isRefreshing, mutFlag, orch, refreshCalls, inFlightAdds,
                   inFlightUnlikes>>
    /\ MutationsCleanup
    /\ UNCHANGED notHookVars

\* the component unmounts: the cleanups run and no effect body follows
Unmount ==
    /\ alive /\ ~MicrotaskPending
    /\ alive' = FALSE
    /\ loads' = AbortLoads(loads)
    /\ isMountedRef' = FALSE
    /\ UNCHANGED <<uid, idChanges, srvTracks, srvLiked, fPlaylists, fLiked, fTracks,
                   isLoading, isRefreshing, lPlaylists, lLiked, lTracks, mutFlag,
                   orch, refreshCalls, inFlightAdds, inFlightUnlikes>>
    /\ MutationsCleanup
    /\ UNCHANGED notHookVars

Next ==
    \/ \E u \in 0..NumUids : ChangeIdentity(u)
    \/ Unmount
    \/ RefreshCall
    \/ OrchResume
    \/ \E l \in loads : LoadLists(l)
    \/ \E l \in loads : LoadListsFail(l)
    \/ \E l \in loads : LoadTracks(l)
    \/ \E l \in loads : LoadAbortedContinue(l)
    \/ \E t \in Tracks, p \in Kinds : CallAdd(t, p)
    \/ \E t \in Tracks : CallUnlike(t)
    \/ \E i \in DOMAIN calls : AddSucceed(i)
    \/ \E i \in DOMAIN calls : AddFail(i)
    \/ \E i \in DOMAIN calls : UnlikeSucceed(i)
    \/ \E i \in DOMAIN calls : UnlikeFail(i)
    \/ \E i \in DOMAIN calls : SettleAborted(i)

Spec == Init /\ [][Next]_vars

----------------------------------------------------------------------------
(* usePlaylistsData: the delta callbacks and the update queue of the fiber *)
(*                                                                         *)
(* setState(updater) runs the updater inside the call only when no update  *)
(* is queued on the fiber of the component; otherwise the updater is put   *)
(* on the queue and runs at the next render.  Spec above takes every       *)
(* updater on the first path.  SpecDelta starts from a finished load and   *)
(* applies deltas between renders; the first update after a render is      *)
(* taken as run inside the call.                                           *)

\* the hook state that the delta callbacks leave alone
hookButLocalVars == <<uid, alive, idChanges, srvTracks, srvLiked, fPlaylists,
                      fLiked, fTracks, isLoading, isRefreshing, loads, lLiked,
                      mutFlag, orch, refreshCalls, pendingAddsRef,
                      pendingUnlikesRef, pendingAdds, pendingUnlikes,
                      inFlightAdds, inFlightUnlikes, ctlAdd, ctlUnlike,
                      isMountedRef, calls>>

\* user 1 after loadData wrote its result: the playlists of the remote store
\* and the tracks of the playlists whose request was fulfilled
DlInit ==
    /\ uid = 1
    /\ alive = TRUE
    /\ idChanges = 0
    /\ srvTracks \in [Kinds -> SUBSET Tracks]
    /\ srvLiked = SrvLikedInit
    /\ fPlaylists = ServerPlaylists
    /\ fLiked = srvLiked
    /\ \E fulfilled \in SUBSET Kinds :
         fTracks = [has |-> fulfilled,
                    set |-> [k \in Kinds |-> IF k \in fulfilled THEN srvTracks[k]
                                                               ELSE {}]]
    /\ isLoading = FALSE
    /\ isRefreshing = FALSE
    /\ loads = {}
    /\ lPlaylists = Null(EmptyPlaylists)
    /\ lLiked = Null(<<>>)
    /\ lTracks = Null(EmptyTracks)
    /\ mutFlag = FALSE
    /\ orch = OrchIdle
    /\ refreshCalls = 0
    /\ pendingAddsRef = {}
    /\ pendingUnlikesRef = {}
    /\ pendingAdds = {}
    /\ pendingUnlikes = {}
    /\ inFlightAdds = [t \in Tracks |-> 0]
    /\ inFlightUnlikes = [t \in Tracks |-> 0]
    /\ ctlAdd = [k \in Tracks \X Kinds |-> 0]
    /\ ctlUnlike = [t \in Tracks |-> 0]
    /\ isMountedRef = TRUE
    /\ calls = <<>>
    /\ DlParked /\ PgParked /\ GrParked /\ AuParked
    /\ ApiParked /\ ScriptParked /\ PxParked

\* onTrackAdded while an update is queued: the updater of
\* setLocalPlaylistTracks has not run when wasActuallyAdded is tested, so
\* setLocalPlaylists is not called.  The queued updaters run in order at the
\* next render; what that render shows is written here.
OnTrackAddedQueued(t, p) ==
    IF p \notin fPlaylists.has
      THEN UNCHANGED <<lTracks, lPlaylists>>
      ELSE LET base == EffTracks
               tracks == IF p \in base.has THEN base.set[p] ELSE {}
           IN /\ lTracks' = Some([has |-> base.has \cup {p},
                                  set |-> [base.set EXCEPT ![p] = tracks \cup {t}]])
              /\ lPlaylists' = lPlaylists

\* onTrackAddRollback while an update is queued: wasActuallyInSet is still
\* false at its test
OnTrackAddRollbackQueued(t, p) ==
    IF p \notin fPlaylists.has
      THEN UNCHANGED <<lTracks, lPlaylists>>
      ELSE LET base == EffTracks
               tracks == IF p \in base.has THEN base.set[p] ELSE {}
           IN /\ lTracks' = Some([has |-> base.has \cup {p},
                                  set |-> [base.set EXCEPT ![p] = tracks \ {t}]])
              /\ lPlaylists' = lPlaylists

\* a call of onTrackAdded(t, p)
DeltaAdd(t, p) ==
    /\ deltaCalls < MaxDeltaCalls
    /\ IF fiberLanes THEN OnTrackAddedQueued(t, p) ELSE OnTrackAdded(t, p)
    /\ fiberLanes' = (fiberLanes \/ p \in fPlaylists.has)
    /\ deltaCalls' = deltaCalls + 1
    /\ UNCHANGED hookButLocalVars
    /\ UNCHANGED notHookDlVars

\* a call of onTrackAddRollback(t, p)
DeltaRollback(t, p) ==
    /\ deltaCalls < MaxDeltaCalls
    /\ IF fiberLanes THEN OnTrackAddRollbackQueued(t, p)
                     ELSE OnTrackAddRollback(t, p)
    /\ fiberLanes' = (fiberLanes \/ p \in fPlaylists.has)
    /\ deltaCalls' = deltaCalls + 1
    /\ UNCHANGED hookButLocalVars
    /\ UNCHANGED notHookDlVars

\* the component renders: the queue of the fiber is empty again
FiberRender ==
    /\ fiberLanes
    /\ fiberLanes' = FALSE
    /\ UNCHANGED <<deltaCalls, lTracks, lPlaylists>>
    /\ UNCHANGED hookButLocalVars
    /\ UNCHANGED notHookDlVars

DlNext ==
    \/ \E t \in Tracks, p \in Kinds : DeltaAdd(t, p)
    \/ \E t \in Tracks, p \in Kinds : DeltaRollback(t, p)
    \/ FiberRender

SpecDelta == DlInit /\ [][DlNext]_vars

----------------------------------------------------------------------------
(* usePlaylistsPagination                                                  *)
(*                                                                         *)
(* The trackIds prop is an array of n ids; v tells arrays apart, as the    *)
(* reference comparison of the hook does.  An action is a prop change or a *)
(* setPage call, the commit that follows it with its effects, or the       *)
(* continuation of a loadPage call.  The commit follows the change at      *)
(* once: while it is due, only continuations of aborted calls run.         *)

\* the lengths of trackIds tried
PgLengths == {0, 50, 150, 250}

\* the ids of the array
TrackIdList(l) == [i \in 1..l.n |-> <<l.v, i>>]

\* Array.prototype.slice(start, end), with 0 <= start <= end
ArraySlice(q, start, end) ==
    IF start >= Len(q) THEN <<>> ELSE SubSeq(q, start + 1, Min(end, Len(q)))

\* Math.ceil(a / b), for a >= 0 and b > 0
CeilDiv(a, b) == (a + b - 1) \div b

\* totalPages
TotalPages(l) == Max(1, CeilDiv(l.n, TRACKS_PER_PAGE))

\* loadPage: pageTrackIds
PageTrackIds(page, l) ==
    LET start == (page - 1) * TRACKS_PER_PAGE
    IN ArraySlice(TrackIdList(l), start, start + TRACKS_PER_PAGE)

\* getTracksById answers with the tracks of the ids, in order
TracksOf(ids) == [i \in DOMAIN ids |-> [id |-> ids[i]]]

\* the dependencies of the effects in the current render
PageDepsNow == [v |-> trackIds.v, page |-> currentPage, skip |-> skipLoading]

\* a render with changed dependencies has not run its effects yet
PgRenderPending == pageDeps # PageDepsNow

\* abortControllerRef.current?.abort()
AbortPageLoads ==
    { IF l.id = abortControllerRef THEN [l EXCEPT !.aborted = TRUE] ELSE l :
        l \in pageLoads }

\* the first render: api is set, page 1, nothing loaded, no effect has run
PgInit ==
    /\ trackIds \in [v : {1}, n : PgLengths]
    /\ skipLoading \in BOOLEAN
    /\ currentPage = 1
    /\ currentPageTracks = <<>>
    /\ isLoadingPage = FALSE
    /\ prevTrackIdsRef = 1
    /\ abortControllerRef = 0
    /\ pageLoads = {}
    /\ pageDeps = [v |-> 0, page |-> 1, skip |-> TRUE]
    /\ pageRequested = [page |-> 0, v |-> 0, n |-> 0, failed |-> FALSE]
    /\ pageCalls = 0
    /\ pageInputs = 0
    /\ HookIdle /\ ApiParked /\ ScriptParked /\ PxParked /\ DlParked /\ GrParked /\ AuParked

\* setPage(page)
PgSetPage(page) ==
    /\ ~PgRenderPending
    /\ pageInputs < MaxPageInputs
    /\ currentPage' = page
    /\ pageInputs' = pageInputs + 1
    /\ UNCHANGED <<trackIds, skipLoading, currentPageTracks, isLoadingPage,
                   prevTrackIdsRef, abortControllerRef, pageLoads, pageDeps,
                   pageRequested, pageCalls>>
    /\ UNCHANGED notPgVars

\* the parent passes another array of n ids
PgNewTrackIds(n) ==
    /\ ~PgRenderPending
    /\ pageInputs < MaxPageInputs
    /\ trackIds' = [v |-> trackIds.v + 1, n |-> n]
    /\ pageInputs' = pageInputs + 1
    /\ UNCHANGED <<skipLoading, currentPage, currentPageTracks, isLoadingPage,
                   prevTrackIdsRef, abortControllerRef, pageLoads, pageDeps,
                   pageRequested, pageCalls>>
    /\ UNCHANGED notPgVars

\* the parent starts or stops loading: skipLoading changes
PgSkipLoading ==
    /\ ~PgRenderPending
    /\ pageInputs < MaxPageInputs
    /\ skipLoading' = ~skipLoading
    /\ pageInputs' = pageInputs + 1
    /\ UNCHANGED <<trackIds, currentPage, currentPageTracks, isLoadingPage,
                   prevTrackIdsRef, abortControllerRef, pageLoads, pageDeps,
                   pageRequested, pageCalls>>
    /\ UNCHANGED notPgVars

\* the commit of a render with changed dependencies: the cleanup of the load
\* effect, the effect that resets or clamps the page, the load effect with
\* the currentPage of this render, and loadPage up to its await
PgCommit ==
    /\ PgRenderPending
    /\ LET reset == prevTrackIdsRef # trackIds.v /\ currentPage # 1
           ids == PageTrackIds(currentPage, trackIds)
           call == pageCalls + 1
           asked == [page |-> currentPage, v |-> trackIds.v, n |-> trackIds.n,
                     failed |-> FALSE]
       IN /\ prevTrackIdsRef' = trackIds.v
          /\ currentPage' = IF reset THEN 1
                            ELSE IF currentPage > TotalPages(trackIds)
                                   THEN TotalPages(trackIds)
                                   ELSE currentPage
          /\ pageDeps' = PageDepsNow
          /\ IF skipLoading
               THEN /\ pageLoads' = AbortPageLoads
                    /\ UNCHANGED <<abortControllerRef, currentPageTracks,
                                   isLoadingPage, pageRequested, pageCalls>>
               ELSE IF trackIds.n > 0
                 THEN /\ abortControllerRef' = call
                      /\ pageCalls' = call
                      /\ pageRequested' = asked
                      /\ IF ids = <<>>
                           THEN /\ currentPageTracks' = <<>>
                                /\ pageLoads' = AbortPageLoads
                                /\ UNCHANGED isLoadingPage
                           ELSE /\ isLoadingPage' = TRUE
                                /\ pageLoads' = AbortPageLoads \cup
                                      {[id |-> call, ids |-> ids, aborted |-> FALSE]}
                                /\ UNCHANGED currentPageTracks
                 ELSE /\ currentPageTracks' = <<>>
                      /\ isLoadingPage' = FALSE
                      /\ pageRequested' = asked
                      /\ pageLoads' = AbortPageLoads
                      /\ UNCHANGED <<abortControllerRef, pageCalls>>
    /\ UNCHANGED <<trackIds, skipLoading, pageInputs>>
    /\ UNCHANGED notPgVars

\* getTracksById answered: setCurrentPageTracks(tracks), finally
PgLoadSucceed(l) ==
    /\ ~PgRenderPending
    /\ ~l.aborted
    /\ currentPageTracks' = TracksOf(l.ids)
    /\ isLoadingPage' = FALSE
    /\ pageLoads' = pageLoads \ {l}
    /\ UNCHANGED <<trackIds, skipLoading, currentPage, prevTrackIdsRef,
                   abortControllerRef, pageDeps, pageRequested, pageCalls,
                   pageInputs>>
    /\ UNCHANGED notPgVars

\* getTracksById failed: the previous tracks are kept, finally
PgLoadFail(l) ==
    /\ ~PgRenderPending
    /\ ~l.aborted
    /\ isLoadingPage' = FALSE
    /\ pageLoads' = pageLoads \ {l}
    /\ pageRequested' = [pageRequested EXCEPT !.failed = TRUE]
    /\ UNCHANGED <<trackIds, skipLoading, currentPage, currentPageTracks,
                   prevTrackIdsRef, abortControllerRef, pageDeps, pageCalls,
                   pageInputs>>
    /\ UNCHANGED notPgVars

\* the signal was aborted: getTracksById rejects with the AbortError, the
\* catch block returns, finally
PgLoadAborted(l) ==
    /\ l.aborted
    /\ isLoadingPage' = FALSE
    /\ pageLoads' = pageLoads \ {l}
    /\ UNCHANGED <<trackIds, skipLoading, currentPage, currentPageTracks,
                   prevTrackIdsRef, abortControllerRef, pageDeps, pageRequested,
                   pageCalls, pageInputs>>
    /\ UNCHANGED notPgVars

PgNext ==
    \/ \E page \in 1..MaxPageArg : PgSetPage(page)
    \/ \E n \in PgLengths : PgNewTrackIds(n)
    \/ PgSkipLoading
    \/ PgCommit
    \/ \E l \in pageLoads : PgLoadSucceed(l)
    \/ \E l \in pageLoads : PgLoadFail(l)
    \/ \E l \in pageLoads : PgLoadAborted(l)

SpecPage == PgInit /\ [][PgNext]_vars

----------------------------------------------------------------------------
(* watched-date: getGranularity                                            *)

THRESHOLDS == [day |-> 7, week |-> 30, month |-> 365]

\* mutant of GetGranularity: an age of exactly THRESHOLDS.day is still a day
GetGranularityInclusive(daysAgo) ==
    IF daysAgo <= THRESHOLDS.day THEN "day"
    ELSE IF daysAgo < THRESHOLDS.week THEN "week"
    ELSE IF daysAgo < THRESHOLDS.month THEN "month"
    ELSE "year"

\* getGranularity(daysAgo)
GetGranularity(daysAgo) ==
    IF daysAgo < THRESHOLDS.day THEN "day"
    ELSE IF daysAgo < THRESHOLDS.week THEN "week"
    ELSE IF daysAgo < THRESHOLDS.month THEN "month"
    ELSE "year"

GrInit ==
    /\ grDaysAgo \in -MaxDaysAgo..MaxDaysAgo
    /\ grDone = FALSE
    /\ grResult = "none"
    /\ HookIdle /\ ApiParked /\ ScriptParked /\ PxParked /\ DlParked /\ PgParked
    /\ AuParked

GrRun ==
    /\ ~grDone
    /\ grDone' = TRUE
    /\ grResult' = GetGranularity(grDaysAgo)
    /\ UNCHANGED grDaysAgo
    /\ UNCHANGED notGrVars

SpecGranularity == GrInit /\ [][GrRun]_vars

----------------------------------------------------------------------------
(* useYandexAuth                                                           *)
(*                                                                         *)
(* A token is a number of 1..NumUids, the account of token t has uid t.    *)
(* A JavaScript value is [type, v]; the value that JSON.parse returns also *)
(* has its keys and its properties token and user, and user has uid.       *)

Undef == [type |-> "undefined", v |-> 0]
JsNull == [type |-> "null", v |-> 0]
JsNumber(n) == [type |-> "number", v |-> n]
JsString(x) == [type |-> "string", v |-> x]

\* the value of the property user: an object with (or without) uid, or a
\* value that has no properties
UserObject(id) == [type |-> "object", v |-> 0, uid |-> id]
UserValue(p) == [type |-> p.type, v |-> p.v, uid |-> Undef]

\* what JSON.parse returned: an object with the keys `keys`, or another value
ParsedObject(keys, token, user) ==
    [type |-> "object", v |-> 0, keys |-> keys,
     token |-> IF "token" \in keys THEN token ELSE Undef,
     user |-> IF "user" \in keys THEN user ELSE UserValue(Undef)]
ParsedValue(p) ==
    [type |-> p.type, v |-> p.v, keys |-> {}, token |-> Undef,
     user |-> UserValue(Undef)]

\* typeof x
TypeOf(x) == IF x.type = "null" THEN "object" ELSE x.type

\* user?.uid
OptionalUid(user) ==
    IF user.type \in {"null", "undefined"} THEN Undef ELSE user.uid

\* mutant of IsValidAuthState: the type of user.uid is not tested
IsValidAuthStateAnyUid(data) ==
    /\ TypeOf(data) = "object"
    /\ data.type # "null"
    /\ "token" \in data.keys
    /\ "user" \in data.keys
    /\ TypeOf(data.token) = "string"

\* isValidAuthState(data)
IsValidAuthState(data) ==
    /\ TypeOf(data) = "object"
    /\ data.type # "null"
    /\ "token" \in data.keys
    /\ "user" \in data.keys
    /\ TypeOf(data.token) = "string"
    /\ TypeOf(OptionalUid(data.user)) = "number"

\* the entry of localStorage: absent, the empty string, a text that
\* JSON.parse rejects, or the text of a JSON value
NoEntry == [has |-> FALSE, syntax |-> "empty", value |-> 0]
EmptyEntry == [has |-> TRUE, syntax |-> "empty", value |-> 0]
BrokenEntry == [has |-> TRUE, syntax |-> "invalid", value |-> 0]
JsonEntry(value) == [has |-> TRUE, syntax |-> "json", value |-> value]

\* JSON.stringify({ token, user })
StoredAuth(token, id) ==
    JsonEntry(ParsedObject({"token", "user"}, JsString(token),
                           UserObject(JsNumber(id))))

\* the entries found at start-up
StoredChoices ==
    {NoEntry, EmptyEntry, BrokenEntry,
     JsonEntry(ParsedValue(JsNull)), JsonEntry(ParsedValue(JsNumber(1))),
     JsonEntry(ParsedValue(JsString(1))),
     JsonEntry(ParsedObject({}, Undef, UserValue(Undef))),
     JsonEntry(ParsedObject({"token"}, JsString(1), UserValue(Undef))),
     JsonEntry(ParsedObject({"user"}, Undef, UserObject(JsNumber(1)))),
     JsonEntry(ParsedObject({"token", "user"}, JsNumber(1), UserObject(JsNumber(1)))),
     JsonEntry(ParsedObject({"token", "user"}, JsNull, UserObject(JsNumber(1)))),
     JsonEntry(ParsedObject({"token", "user"}, JsString(1), UserValue(JsNull))),
     JsonEntry(ParsedObject({"token", "user"}, JsString(1), UserValue(JsNumber(1)))),
     JsonEntry(ParsedObject({"token", "user"}, JsString(1), UserObject(Undef))),
     JsonEntry(ParsedObject({"token", "user"}, JsString(1), UserObject(JsString(1))))}
    \cup {StoredAuth(t, t) : t \in 1..NumUids}

\* if (stored): the entry exists and is not the empty string
Truthy(entry) == entry.has /\ entry.syntax # "empty"

\* the stored text passes JSON.parse and isValidAuthState
RestorableEntry(entry) ==
    Truthy(entry) /\ entry.syntax = "json" /\ IsValidAuthState(entry.value)

NoAuth == [token |-> 0, uid |-> 0]

\* the first render: isLoading is true, the restore effect has not run
AuInit ==
    /\ auStored \in StoredChoices
    /\ auAuth = NoAuth
    /\ auIsLoading = TRUE
    /\ auError = "none"
    /\ auInitialized = FALSE
    /\ auFound = NoEntry
    /\ auMounted = TRUE
    /\ auOps = {}
    /\ auRequests = 0
    /\ auCalls = 0
    /\ HookIdle /\ ApiParked /\ ScriptParked /\ PxParked /\ DlParked /\ PgParked
    /\ GrParked

\* the restore effect
AuRestore ==
    /\ auMounted /\ ~auInitialized
    /\ auInitialized' = TRUE
    /\ auFound' = auStored
    /\ IF RestorableEntry(auStored)
         THEN /\ auOps' = auOps \cup {[kind |-> "restore",
                                       token |-> auStored.value.token.v,
                                       id |-> auRequests + 1, aborted |-> FALSE]}
              /\ auRequests' = auRequests + 1
              /\ UNCHANGED <<auStored, auIsLoading>>
         ELSE /\ auStored' = IF Truthy(auStored) THEN NoEntry ELSE auStored
              /\ auIsLoading' = FALSE
              /\ UNCHANGED <<auOps, auRequests>>
    /\ UNCHANGED <<auAuth, auError, auMounted, auCalls>>
    /\ UNCHANGED notAuVars

\* fetchAccountStatus of the restore answered with the account: then, finally
AuRestoreOk(op) ==
    /\ op.kind = "restore" /\ ~op.aborted
    /\ auOps' = auOps \ {op}
    /\ auAuth' = [token |-> op.token, uid |-> op.token]
    /\ auIsLoading' = FALSE
    /\ UNCHANGED <<auStored, auError, auInitialized, auFound, auMounted,
                   auRequests, auCalls>>
    /\ UNCHANGED notAuVars

\* fetchAccountStatus of the restore failed: catch, finally
AuRestoreFail(op) ==
    /\ op.kind = "restore" /\ ~op.aborted
    /\ auOps' = auOps \ {op}
    /\ auStored' = NoEntry
    /\ auError' = "Session expired"
    /\ auIsLoading' = FALSE
    /\ UNCHANGED <<auAuth, auInitialized, auFound, auMounted, auRequests, auCalls>>
    /\ UNCHANGED notAuVars

\* the restore was aborted: the AbortError is swallowed, nothing is set
AuRestoreAborted(op) ==
    /\ op.kind = "restore" /\ op.aborted
    /\ auOps' = auOps \ {op}
    /\ UNCHANGED <<auStored, auAuth, auIsLoading, auError, auInitialized, auFound,
                   auMounted, auRequests, auCalls>>
    /\ UNCHANGED notAuVars

\* loginWithToken(token), up to its await
AuLogin(token) ==
    /\ auMounted /\ auInitialized
    /\ auCalls < MaxAuthCalls
    /\ auCalls' = auCalls + 1
    /\ auIsLoading' = TRUE
    /\ auError' = "none"
    /\ auOps' = auOps \cup {[kind |-> "login", token |-> token,
                             id |-> auRequests + 1, aborted |-> FALSE]}
    /\ auRequests' = auRequests + 1
    /\ UNCHANGED <<auStored, auAuth, auInitialized, auFound, auMounted>>
    /\ UNCHANGED notAuVars

\* fetchAccountStatus of a login answered with the account.  The entry is
\* written whether or not the component is still mounted; the state of an
\* unmounted component is not updated.
AuLoginOk(op) ==
    /\ op.kind = "login"
    /\ auOps' = auOps \ {op}
    /\ auStored' = StoredAuth(op.token, op.token)
    /\ auAuth' = IF auMounted THEN [token |-> op.token, uid |-> op.token] ELSE auAuth
    /\ auIsLoading' = IF auMounted THEN FALSE ELSE auIsLoading
    /\ UNCHANGED <<auError, auInitialized, auFound, auMounted, auRequests, auCalls>>
    /\ UNCHANGED notAuVars

\* fetchAccountStatus of a login failed: catch (setError, rethrow), finally
AuLoginFail(op) ==
    /\ op.kind = "login"
    /\ auOps' = auOps \ {op}
    /\ auError' = IF auMounted THEN "Failed to authenticate" ELSE auError
    /\ auIsLoading' = IF auMounted THEN FALSE ELSE auIsLoading
    /\ UNCHANGED <<auStored, auAuth, auInitialized, auFound, auMounted,
                   auRequests, auCalls>>
    /\ UNCHANGED notAuVars

\* logout()
AuLogout ==
    /\ auMounted /\ auInitialized
    /\ auCalls < MaxAuthCalls
    /\ auCalls' = auCalls + 1
    /\ auStored' = NoEntry
    /\ auAuth' = NoAuth
    /\ UNCHANGED <<auIsLoading, auError, auInitialized, auFound, auMounted,
                   auOps, auRequests>>
    /\ UNCHANGED notAuVars

\* the component unmounts: the cleanup of the restore effect aborts its
\* controller; the signal of a login is never aborted
AuUnmount ==
    /\ auMounted /\ auInitialized
    /\ auMounted' = FALSE
    /\ auOps' = {IF op.kind = "restore" THEN [op EXCEPT !.aborted = TRUE] ELSE op :
                    op \in auOps}
    /\ UNCHANGED <<auStored, auAuth, auIsLoading, auError, auInitialized, auFound,
                   auRequests, auCalls>>
    /\ UNCHANGED notAuVars

AuNext ==
    \/ AuRestore
    \/ \E op \in auOps : AuRestoreOk(op)
    \/ \E op \in auOps : AuRestoreFail(op)
    \/ \E op \in auOps : AuRestoreAborted(op)
    \/ \E t \in 1..NumUids : AuLogin(t)
    \/ \E op \in auOps : AuLoginOk(op)
    \/ \E op \in auOps : AuLoginFail(op)
    \/ AuLogout
    \/ AuUnmount

SpecAuth == AuInit /\ [][AuNext]_vars

----------------------------------------------------------------------------
(* sync-trakt: groupHistory                                                *)

\* the show ids, season numbers, episode numbers and movie ids of the events
ShowIds == {1, 2}
SeasonNos == {1, 2}
EpisodeNos == {1, 2}
MovieIds == {1, 2}

\* TraktHistoryItem: type, the payload movie / show+episode when present, and
\* watched_at, which Stamp sets
MovieEvent(m) ==
    [type |-> "movie", has |-> TRUE, id |-> m, show |-> 0, season |-> 0, number |-> 0,
     watched_at |-> 0]
EpisodeEvent(sh, se, n) ==
    [type |-> "episode", has |-> TRUE, id |-> 0, show |-> sh, season |-> se,
     number |-> n, watched_at |-> 0]
\* an item whose payload is missing (item.movie / item.show undefined)
BareEvent(ty) ==
    [type |-> ty, has |-> FALSE, id |-> 0, show |-> 0, season |-> 0, number |-> 0,
     watched_at |-> 0]

\* /sync/history lists the most recent event first: the events of a history
\* with their watched_at, a number that falls from one event to the next
Stamp(history) ==
    [i \in DOMAIN history |->
        [history[i] EXCEPT !.watched_at = Len(history) + 1 - i]]

HistoryEvents ==
    {MovieEvent(m) : m \in MovieIds}
    \cup {EpisodeEvent(sh, se, n) : sh \in ShowIds, se \in SeasonNos, n \in EpisodeNos}
    \cup {BareEvent("episode")}

\* GroupedItem
MovieItem(m, at) ==
    [type |-> "movie", id |-> m, show |-> 0, season |-> 0, episodes |-> <<>>,
     watched_at |-> at]
SeasonItem(g) ==
    [type |-> "season", id |-> 0, show |-> g.show, season |-> g.season,
     episodes |-> g.episodes, watched_at |-> g.watched_at]

\* currentGroup = undefined
NoGroup ==
    [open |-> FALSE, show |-> 0, season |-> 0, episodes |-> <<>>, watched_at |-> 0]

\* mutant of GhBody: the season of the open group is not compared
GhBodyShowOnly(st, item) ==
    IF item.type = "movie" /\ item.has
      THEN [items |-> (IF st.cur.open THEN Append(st.items, SeasonItem(st.cur))
                       ELSE st.items) \o <<MovieItem(item.id, item.watched_at)>>,
            cur |-> NoGroup]
    ELSE IF item.type = "episode" /\ item.has
      THEN IF st.cur.open /\ st.cur.show = item.show
             THEN [st EXCEPT !.cur.episodes = Append(@, item.number)]
             ELSE [items |-> IF st.cur.open THEN Append(st.items, SeasonItem(st.cur))
                             ELSE st.items,
                   cur |-> [open |-> TRUE, show |-> item.show, season |-> item.season,
                            episodes |-> <<item.number>>,
                            watched_at |-> item.watched_at]]
    ELSE st

\* mutant of GhBody: a merged episode moves watched_at of the open group
GhBodyLastWatched(st, item) ==
    IF item.type = "movie" /\ item.has
      THEN [items |-> (IF st.cur.open THEN Append(st.items, SeasonItem(st.cur))
                       ELSE st.items) \o <<MovieItem(item.id, item.watched_at)>>,
            cur |-> NoGroup]
    ELSE IF item.type = "episode" /\ item.has
      THEN IF st.cur.open /\ st.cur.show = item.show /\ st.cur.season = item.season
             THEN [st EXCEPT !.cur.episodes = Append(@, item.number),
                             !.cur.watched_at = item.watched_at]
             ELSE [items |-> IF st.cur.open THEN Append(st.items, SeasonItem(st.cur))
                             ELSE st.items,
                   cur |-> [open |-> TRUE, show |-> item.show, season |-> item.season,
                            episodes |-> <<item.number>>,
                            watched_at |-> item.watched_at]]
    ELSE st

\* groupHistory: the body of the for loop, on the state (items, currentGroup)
GhBody(st, item) ==
    IF item.type = "movie" /\ item.has
      THEN [items |-> (IF st.cur.open THEN Append(st.items, SeasonItem(st.cur))
                       ELSE st.items) \o <<MovieItem(item.id, item.watched_at)>>,
            cur |-> NoGroup]
    ELSE IF item.type = "episode" /\ item.has
      THEN IF st.cur.open /\ st.cur.show = item.show /\ st.cur.season = item.season
             THEN [st EXCEPT !.cur.episodes = Append(@, item.number)]
             ELSE [items |-> IF st.cur.open THEN Append(st.items, SeasonItem(st.cur))
                             ELSE st.items,
                   cur |-> [open |-> TRUE, show |-> item.show, season |-> item.season,
                            episodes |-> <<item.number>>,
                            watched_at |-> item.watched_at]]
    ELSE st

\* the for loop over history[1..n]
RECURSIVE GhLoop(_, _)
GhLoop(history, n) ==
    IF n = 0 THEN [items |-> <<>>, cur |-> NoGroup]
    ELSE GhBody(GhLoop(history, n - 1), history[n])

\* mutant of GroupHistory: the group still open after the loop is not emitted
GroupHistoryNoFlush(history) == GhLoop(history, Len(history)).items

\* groupHistory(history)
GroupHistory(history) ==
    LET st == GhLoop(history, Len(history))
    IN IF st.cur.open THEN Append(st.items, SeasonItem(st.cur)) ELSE st.items

RECURSIVE SeqsUpTo(_, _)
SeqsUpTo(S, n) ==
    IF n = 0 THEN {<<>>}
    ELSE LET R == SeqsUpTo(S, n - 1)
         IN R \cup {Append(q, x) : q \in {r \in R : Len(r) = n - 1}, x \in S}

GhInit ==
    /\ ghInput \in {Stamp(h) : h \in SeqsUpTo(HistoryEvents, MaxEvents)}
    /\ ghDone = FALSE
    /\ ghItems = <<>>
    /\ HookIdle /\ ApiParked /\ SyncParked /\ FsParked /\ GcParked /\ EnParked /\ PxParked
    /\ DlParked /\ PgParked /\ GrParked /\ AuParked

GhRun ==
    /\ ~ghDone
    /\ ghDone' = TRUE
    /\ ghItems' = GroupHistory(ghInput)
    /\ UNCHANGED ghInput
    /\ UNCHANGED notGhVars

SpecGroup == GhInit /\ [][GhRun]_vars

----------------------------------------------------------------------------
(* sync-trakt: formatEpisodeSubtitle                                       *)

\* the arguments tried: season numbers and episode numbers of one and two digits
FsSeasons == {1, 12}
FsEpisodeNos == {1, 2, 3, 9, 10}

DecimalDigits == <<"0", "1", "2", "3", "4", "5", "6", "7", "8", "9">>

\* `${n}` for a non-negative integer
RECURSIVE Str(_)
Str(n) ==
    IF n < 10 THEN <<DecimalDigits[n + 1]>>
    ELSE Str(n \div 10) \o <<DecimalDigits[(n % 10) + 1]>>

\* sorted.join(',')
RECURSIVE Join(_)
Join(q) ==
    IF Len(q) = 0 THEN <<>>
    ELSE IF Len(q) = 1 THEN Str(q[1])
    ELSE Str(q[1]) \o <<",">> \o Join(Tail(q))

\* insertion of x into an ascending sequence, after the elements equal to it
RECURSIVE InsertAsc(_, _)
InsertAsc(q, x) ==
    IF Len(q) = 0 THEN <<x>>
    ELSE IF x - q[1] < 0 THEN <<x>> \o q
    ELSE <<q[1]>> \o InsertAsc(Tail(q), x)

\* mutant of SortAsc: the copy is not sorted
SortAscNone(q) == q

\* [...episodes].sort((a, b) => a - b)
RECURSIVE SortAsc(_)
SortAsc(q) ==
    IF Len(q) = 0 THEN <<>>
    ELSE InsertAsc(SortAsc(SubSeq(q, 1, Len(q) - 1)), q[Len(q)])

\* sorted.every((ep, i) => i === 0 || ep === sorted[i - 1] + 1)
IsConsecutive(sorted) ==
    \A i \in 1..Len(sorted) : i = 1 \/ sorted[i] = sorted[i - 1] + 1

\* formatEpisodeSubtitle(season, episodes)
FormatEpisodeSubtitle(season, episodes) ==
    LET sorted == SortAsc(episodes)
        prefix == <<"S">> \o Str(season) \o <<" ", "E">>
    IN IF Len(sorted) = 1 THEN prefix \o Str(sorted[1])
       ELSE IF IsConsecutive(sorted)
         THEN prefix \o Str(sorted[1]) \o <<"-">> \o Str(sorted[Len(sorted)])
       ELSE prefix \o Join(sorted)

FsInit ==
    /\ fsSeason \in FsSeasons
    /\ fsEpisodes \in SeqsUpTo(FsEpisodeNos, MaxEpisodes) \ {<<>>}
    /\ fsDone = FALSE
    /\ fsResult = <<>>
    /\ HookIdle /\ ApiParked /\ SyncParked /\ GhParked /\ GcParked /\ EnParked /\ PxParked
    /\ DlParked /\ PgParked /\ GrParked /\ AuParked

FsRun ==
    /\ ~fsDone
    /\ fsDone' = TRUE
    /\ fsResult' = FormatEpisodeSubtitle(fsSeason, fsEpisodes)
    /\ UNCHANGED <<fsSeason, fsEpisodes>>
    /\ UNCHANGED notFsVars

SpecFormat == FsInit /\ [][FsRun]_vars

----------------------------------------------------------------------------
(* sync-trakt: the data of a run                                           *)

\* what /sync/history can return: nothing, a short history, and histories of
\* OUTPUT_ITEMS_LIMIT and of MaxHistory movies and single episodes, where the
\* i-th event is a movie for odd i and an episode of show 1 or 2 for even i
HistoryEventAt(i) ==
    IF i % 2 = 1 THEN MovieEvent(1 + ((i \div 2) % 2))
    ELSE EpisodeEvent(1 + ((i \div 2) % 2), 1 + ((i \div 4) % 2), 1)

HistoryChoices ==
    { <<>>,
      <<EpisodeEvent(1, 1, 2), EpisodeEvent(1, 1, 1), MovieEvent(1)>>,
      [i \in 1..OUTPUT_ITEMS_LIMIT |-> HistoryEventAt(i)],
      [i \in 1..MaxHistory |-> HistoryEventAt(i)] }

\* a date string, here the two digits of the day: toDateString(first_aired)
\* for an episode, released for a movie
DateString(d) == <<DecimalDigits[(d \div 10) + 1], DecimalDigits[(d % 10) + 1]>>

\* an ISO timestamp, here the two digits of the day, "T" and the two digits of
\* the hour
IsoString(d, h) == DateString(d) \o <<"T">> \o DateString(h)

\* toDateString(iso): iso.split('T')[0]
RECURSIVE ToDateString(_)
ToDateString(iso) ==
    IF Len(iso) = 0 \/ iso[1] = "T" THEN <<>>
    ELSE <<iso[1]>> \o ToDateString(Tail(iso))

EpisodeTypes ==
    {"series_finale", "season_finale", "mid_season_finale", "series_premiere",
     "season_premiere", "mid_season_premiere", "standard"}

EPISODE_TYPE_PRIORITY ==
    [series_finale |-> 6, season_finale |-> 5, mid_season_finale |-> 4,
     series_premiere |-> 3, season_premiere |-> 2, mid_season_premiere |-> 1,
     standard |-> 0]

\* a record of /calendars/my/shows: first_aired, show, episode.season,
\* episode.number, episode.episode_type
CalendarEpisode(d, h, sh, se, n, ty) ==
    [first_aired |-> IsoString(d, h), show |-> sh, season |-> se, number |-> n,
     episode_type |-> ty]
CalendarMovie(d, m) ==
    [type |-> "movie", date |-> DateString(d), show |-> 0, season |-> 0,
     number |-> 0, id |-> m]

\* what the two calendar endpoints can return (episodes, then movies): nothing,
\* a few records out of date order with two episodes of one show, season and
\* day, and MaxCalendar movies, latest first
CalendarChoices ==
    { [episodes |-> <<>>, movies |-> <<>>],
      [episodes |-> <<CalendarEpisode(12, 1, 1, 1, 3, "standard"),
                      CalendarEpisode(9, 20, 2, 1, 1, "series_premiere"),
                      CalendarEpisode(12, 23, 1, 1, 4, "season_finale")>>,
       movies |-> <<CalendarMovie(10, 1), CalendarMovie(2, 2)>>],
      [episodes |-> <<>>,
       movies |-> [i \in 1..MaxCalendar |->
                     CalendarMovie(MaxCalendar + 1 - i, 1 + (i % 2))]] }

\* collectUniqueSlugs(grouped, rawCalendar); a show's slug is its id here
CollectUniqueSlugs(grouped, rawCalendar) ==
    {grouped[i].show : i \in {j \in DOMAIN grouped : grouped[j].type = "season"}}
    \cup {rawCalendar.episodes[i].show : i \in DOMAIN rawCalendar.episodes}

\* seasonsMap.get(slug)?.get(season) is defined
HasSeasonData(seasonsMap, slug, season) ==
    slug \in DOMAIN seasonsMap /\ season \in DOMAIN seasonsMap[slug]

\* an optional value: undefined, or a value
Undefined(empty) == [has |-> FALSE, v |-> empty]
Defined(x) == [has |-> TRUE, v |-> x]

\* a ?? b
Coalesce(a, b) == IF a.has THEN a ELSE b

\* the catalog: TraktShow / TraktMovie of an id (year, and images.poster, which
\* show 2 and movie 2 lack)
PosterPath == <<"i", "m", "g">>
PosterUrl == <<"h", "t", "t", "p", ":", "/", "/", "i", "m", "g">>
ShowYear(sh) == 2000 + sh
ShowImages(sh) == IF sh = 1 THEN <<PosterPath>> ELSE <<>>
MovieYear(m) == 1990 + m
MovieImages(m) == IF m = 1 THEN <<PosterUrl>> ELSE <<>>

\* TraktSeason: first_aired ("" when absent) and images.poster
SeasonFull ==
    [first_aired |-> <<"2", "0", "2", "1", "-", "0", "5">>,
     images |-> <<<<"s", "e", "a">>>>]
SeasonBare == [first_aired |-> <<>>, images |-> <<>>]

\* poster.startsWith('http')
StartsWithHttp(poster) ==
    Len(poster) >= 4 /\ SubSeq(poster, 1, 4) = <<"h", "t", "t", "p">>

\* getPosterUrl(images)
GetPosterUrl(images) ==
    IF Len(images) = 0 \/ Len(images[1]) = 0 THEN Undefined(<<>>)
    ELSE IF StartsWithHttp(images[1]) THEN Defined(images[1])
    ELSE Defined(<<"h", "t", "t", "p", "s", ":", "/", "/">> \o images[1])

\* new Date(iso).getFullYear(): the number its leading digits spell
RECURSIVE GetFullYear(_, _)
GetFullYear(iso, acc) ==
    IF Len(iso) = 0 \/ ~(\E k \in 0..9 : DecimalDigits[k + 1] = iso[1]) THEN acc
    ELSE GetFullYear(Tail(iso),
                     10 * acc + (CHOOSE k \in 0..9 : DecimalDigits[k + 1] = iso[1]))

\* TraktRatingItem
MovieRating(m, r) ==
    [type |-> "movie", rating |-> r, id |-> m, show |-> 0, season |-> 0, number |-> 0]
ShowRating(sh, r) ==
    [type |-> "show", rating |-> r, id |-> 0, show |-> sh, season |-> 0, number |-> 0]
SeasonRating(sh, se, r) ==
    [type |-> "season", rating |-> r, id |-> 0, show |-> sh, season |-> se,
     number |-> 0]
EpisodeRating(sh, se, n, r) ==
    [type |-> "episode", rating |-> r, id |-> 0, show |-> sh, season |-> se,
     number |-> n]

\* a Map as the sequence of its entries: map.set(key, value), map.get(key)
MapSet(map, key, value) ==
    IF \E i \in DOMAIN map : map[i].key = key
      THEN [i \in DOMAIN map |->
              IF map[i].key = key THEN [key |-> key, value |-> value] ELSE map[i]]
      ELSE Append(map, [key |-> key, value |-> value])

MapGet(map, key) ==
    IF \E i \in DOMAIN map : map[i].key = key
      THEN Defined(map[CHOOSE i \in DOMAIN map : map[i].key = key].value)
      ELSE Undefined(0)

\* the keys of ratings.seasons and ratings.episodes
SeasonKey(showId, season) == Str(showId) \o <<"-">> \o Str(season)
EpisodeKey(showId, season, number) ==
    Str(showId) \o <<"-">> \o Str(season) \o <<"-">> \o Str(number)

\* getRatings: the loop over the answer of /sync/ratings/all
RECURSIVE GetRatings(_)
GetRatings(all) ==
    IF Len(all) = 0
      THEN [movies |-> <<>>, shows |-> <<>>, seasons |-> <<>>, episodes |-> <<>>]
      ELSE LET ratings == GetRatings(SubSeq(all, 1, Len(all) - 1))
               item == all[Len(all)]
           IN IF item.type = "movie"
                THEN [ratings EXCEPT !.movies = MapSet(@, item.id, item.rating)]
              ELSE IF item.type = "show"
                THEN [ratings EXCEPT !.shows = MapSet(@, item.show, item.rating)]
              ELSE IF item.type = "season"
                THEN [ratings EXCEPT
                        !.seasons = MapSet(@, SeasonKey(item.show, item.season),
                                           item.rating)]
              ELSE [ratings EXCEPT
                      !.episodes = MapSet(@, EpisodeKey(item.show, item.season,
                                                        item.number),
                                          item.rating)]

\* seasonsMap.get(group.show.ids.slug)?.get(group.season)
SeasonDataOf(seasonsMap, slug, season) ==
    IF HasSeasonData(seasonsMap, slug, season)
      THEN Defined(seasonsMap[slug][season])
      ELSE Undefined(SeasonBare)

\* mutant of YearOf: no year without season data
YearOfSeasonOnly(seasonData, show) ==
    IF seasonData.has /\ Len(seasonData.v.first_aired) > 0
      THEN GetFullYear(seasonData.v.first_aired, 0)
      ELSE 0

\* seasonData?.first_aired ? new Date(...).getFullYear() : group.show.year
YearOf(seasonData, show) ==
    IF seasonData.has /\ Len(seasonData.v.first_aired) > 0
      THEN GetFullYear(seasonData.v.first_aired, 0)
      ELSE ShowYear(show)

\* getPosterUrl(seasonData?.images) ?? getPosterUrl(group.show.images)
PosterOf(seasonData, show) ==
    Coalesce(IF seasonData.has THEN GetPosterUrl(seasonData.v.images)
             ELSE Undefined(<<>>),
             GetPosterUrl(ShowImages(show)))

\* mutant of SeasonRatingOf: the rating of the show comes first
SeasonRatingShowFirst(ratings, showId, season) ==
    Coalesce(MapGet(ratings.shows, showId),
             MapGet(ratings.seasons, SeasonKey(showId, season)))

\* ratings.seasons.get(seasonKey) ?? ratings.shows.get(showId)
SeasonRatingOf(ratings, showId, season) ==
    Coalesce(MapGet(ratings.seasons, SeasonKey(showId, season)),
             MapGet(ratings.shows, showId))

\* ...(rating && { rating })
Spread(rating) == IF rating.has /\ rating.v # 0 THEN rating ELSE Undefined(0)

\* enrichItems: the callback of grouped.map
EnrichItem(item, seasonsMap, ratings) ==
    IF item.type = "movie"
      THEN [type |-> "movie", from |-> item, subtitle |-> <<>>,
            year |-> MovieYear(item.id),
            poster |-> GetPosterUrl(MovieImages(item.id)),
            rating |-> Spread(MapGet(ratings.movies, item.id))]
      ELSE LET seasonData == SeasonDataOf(seasonsMap, item.show, item.season)
               isSingleEpisode == Len(item.episodes) = 1
               seasonRating == SeasonRatingOf(ratings, item.show, item.season)
           IN [type |-> IF isSingleEpisode THEN "episode" ELSE "season",
               from |-> item,
               subtitle |-> FormatEpisodeSubtitle(item.season, item.episodes),
               year |-> YearOf(seasonData, item.show),
               poster |-> PosterOf(seasonData, item.show),
               rating |->
                   IF isSingleEpisode
                     THEN Spread(Coalesce(
                            MapGet(ratings.episodes,
                                   EpisodeKey(item.show, item.season,
                                              item.episodes[1])),
                            seasonRating))
                     ELSE Spread(seasonRating)]

\* enrichItems(grouped, seasonsMap, ratings): one display item per grouped record
EnrichItems(grouped, seasonsMap, ratings) ==
    [i \in DOMAIN grouped |-> EnrichItem(grouped[i], seasonsMap, ratings)]

\* the histories, season lookups and ratings enrichItems is run on
EnrichEvents ==
    {MovieEvent(1), EpisodeEvent(1, 1, 1), EpisodeEvent(1, 1, 2),
     EpisodeEvent(2, 1, 1)}

SeasonMapChoices ==
    {<<>>, [se \in {1} |-> SeasonFull], [se \in {1} |-> SeasonBare],
     [se \in {2} |-> SeasonFull]}

SeasonsMapChoices ==
    UNION {[S -> SeasonMapChoices] : S \in SUBSET ShowIds}

RatingItems ==
    {MovieRating(1, 7), ShowRating(1, 8), SeasonRating(1, 1, 9),
     EpisodeRating(1, 1, 1, 10)}

RatingLists ==
    {q \in SeqsUpTo(RatingItems, Cardinality(RatingItems)) :
        \A i, j \in DOMAIN q : i < j => q[i].rating < q[j].rating}

EnInit ==
    /\ enHistory \in SeqsUpTo(EnrichEvents, MaxEnrichEvents)
    /\ enSeasons \in SeasonsMapChoices
    /\ enRatingItems \in RatingLists
    /\ enDone = FALSE
    /\ enItems = <<>>
    /\ HookIdle /\ ApiParked /\ SyncParked /\ GhParked /\ FsParked /\ GcParked /\ PxParked
    /\ DlParked /\ PgParked /\ GrParked /\ AuParked

\* main(), phases 2 and 4, on a history: groupHistory, then enrichItems with
\* the season lookups and the ratings of phase 3
EnRun ==
    /\ ~enDone
    /\ enDone' = TRUE
    /\ enItems' = EnrichItems(GroupHistory(enHistory), enSeasons,
                              GetRatings(enRatingItems))
    /\ UNCHANGED <<enHistory, enSeasons, enRatingItems>>
    /\ UNCHANGED notEnVars

SpecEnrich == EnInit /\ [][EnRun]_vars

\* mutant of Slice: the last n elements
SliceTail(q, n) == SubSeq(q, Max(1, Len(q) - n + 1), Len(q))

\* q.slice(0, n)
Slice(q, n) == SubSeq(q, 1, Min(Len(q), n))

\* the key of the Map of groupCalendarEpisodes, `${date}|${slug}|${season}`;
\* a slug is written as the digits of the show's id
GceKey(ep) ==
    ToDateString(ep.first_aired) \o <<"|">> \o Str(ep.show) \o <<"|">>
        \o Str(ep.season)

GceNew(ep) ==
    [key |-> GceKey(ep),
     value |-> [show |-> ep.show, season |-> ep.season,
                date |-> ToDateString(ep.first_aired),
                episodes |-> <<ep.number>>, episode_type |-> ep.episode_type]]

\* mutant of GceBody: the stored episode_type is never replaced
GceBodyFirstType(groups, ep) ==
    IF \E g \in DOMAIN groups : groups[g].key = GceKey(ep)
      THEN [g \in DOMAIN groups |->
              IF groups[g].key = GceKey(ep)
                THEN [groups[g] EXCEPT !.value.episodes = Append(@, ep.number)]
                ELSE groups[g]]
      ELSE Append(groups, GceNew(ep))

\* mutant of GceBody: a rolling window, only the latest group is looked up
GceBodyRolling(groups, ep) ==
    IF Len(groups) > 0 /\ groups[Len(groups)].key = GceKey(ep)
      THEN [groups EXCEPT
              ![Len(groups)].value.episodes = Append(@, ep.number),
              ![Len(groups)].value.episode_type =
                  IF EPISODE_TYPE_PRIORITY[ep.episode_type] > EPISODE_TYPE_PRIORITY[@]
                    THEN ep.episode_type ELSE @]
      ELSE Append(groups, GceNew(ep))

\* groupCalendarEpisodes: the body of the for loop; the Map is the sequence of
\* its entries in insertion order
GceBody(groups, ep) ==
    IF \E g \in DOMAIN groups : groups[g].key = GceKey(ep)
      THEN [g \in DOMAIN groups |->
              IF groups[g].key = GceKey(ep)
                THEN [groups[g] EXCEPT
                        !.value.episodes = Append(@, ep.number),
                        !.value.episode_type =
                            IF EPISODE_TYPE_PRIORITY[ep.episode_type]
                                 > EPISODE_TYPE_PRIORITY[@]
                              THEN ep.episode_type ELSE @]
                ELSE groups[g]]
      ELSE Append(groups, GceNew(ep))

RECURSIVE GceLoop(_, _)
GceLoop(episodes, n) ==
    IF n = 0 THEN <<>> ELSE GceBody(GceLoop(episodes, n - 1), episodes[n])

\* Array.from(groups.values())
GroupCalendarEpisodes(episodes) ==
    LET groups == GceLoop(episodes, Len(episodes))
    IN [g \in DOMAIN groups |-> groups[g].value]

\* the episodes groupCalendarEpisodes is run on: a show, season and day, the
\* same at another hour, and the same but for the day, the show or the season
CalendarSites ==
    { <<9, 1, 1, 1>>, <<9, 23, 1, 1>>, <<10, 1, 1, 1>>, <<9, 1, 2, 1>>,
      <<9, 1, 1, 2>> }

CalendarEpisodes ==
    { CalendarEpisode(c[1], c[2], c[3], c[4], n, ty) :
        c \in CalendarSites, n \in EpisodeNos, ty \in EpisodeTypes }

GcInit ==
    /\ gcInput \in SeqsUpTo(CalendarEpisodes, MaxCalEpisodes)
    /\ gcDone = FALSE
    /\ gcGroups = <<>>
    /\ HookIdle /\ ApiParked /\ SyncParked /\ GhParked /\ FsParked /\ EnParked /\ PxParked
    /\ DlParked /\ PgParked /\ GrParked /\ AuParked

GcRun ==
    /\ ~gcDone
    /\ gcDone' = TRUE
    /\ gcGroups' = GroupCalendarEpisodes(gcInput)
    /\ UNCHANGED gcInput
    /\ UNCHANGED notGcVars

SpecCalendar == GcInit /\ [][GcRun]_vars

\* the code unit of a character of a date string
CharCode(c) == CHOOSE k \in 0..9 : DecimalDigits[k + 1] = c

\* a.localeCompare(b) for strings of digits: -1, 0 or 1
RECURSIVE LocaleCompare(_, _)
LocaleCompare(a, b) ==
    IF Len(a) = 0 /\ Len(b) = 0 THEN 0
    ELSE IF Len(a) = 0 THEN -1
    ELSE IF Len(b) = 0 THEN 1
    ELSE IF CharCode(a[1]) < CharCode(b[1]) THEN -1
    ELSE IF CharCode(a[1]) > CharCode(b[1]) THEN 1
    ELSE LocaleCompare(Tail(a), Tail(b))

\* stable insertion of x by date
RECURSIVE InsertByDate(_, _)
InsertByDate(q, x) ==
    IF Len(q) = 0 THEN <<x>>
    ELSE IF LocaleCompare(x.date, q[1].date) < 0 THEN <<x>> \o q
    ELSE <<q[1]>> \o InsertByDate(Tail(q), x)

\* items.sort((a, b) => a.date.localeCompare(b.date))
RECURSIVE SortByDate(_)
SortByDate(q) ==
    IF Len(q) = 0 THEN <<>>
    ELSE InsertByDate(SortByDate(SubSeq(q, 1, Len(q) - 1)), q[Len(q)])

\* enrichCalendar before the sort: the grouped episodes, then the movies
CalendarItems(rawCalendar, seasonsMap) ==
    LET groups == GroupCalendarEpisodes(rawCalendar.episodes)
    IN [g \in DOMAIN groups |->
          [type |-> IF Len(groups[g].episodes) = 1 THEN "episode" ELSE "season",
           date |-> groups[g].date, show |-> groups[g].show, id |-> 0,
           subtitle |-> FormatEpisodeSubtitle(groups[g].season, groups[g].episodes),
           seasonData |-> HasSeasonData(seasonsMap, groups[g].show, groups[g].season)]]
       \o [m \in DOMAIN rawCalendar.movies |->
             [type |-> "movie", date |-> rawCalendar.movies[m].date, show |-> 0,
              id |-> rawCalendar.movies[m].id, subtitle |-> <<>>,
              seasonData |-> FALSE]]

\* enrichCalendar(rawCalendar, seasonsMap)
EnrichCalendar(rawCalendar, seasonsMap) ==
    SortByDate(CalendarItems(rawCalendar, seasonsMap))

----------------------------------------------------------------------------
(* sync-trakt: main()                                                      *)

P1Requests == {"history", "stats", "calendar"}

\* a request as it is sent: to Trakt with the access token acc, or to GitHub
\* (acc = -1); stored: the secret store holds the pair that acc belongs to
Request(name, key, acc, store) ==
    [req |-> name, key |-> key, tok |-> acc,
     stored |-> (acc = -1 \/ (store.access = acc /\ store.refresh = acc)),
     ans |-> "pending"]

\* the answer to the pending request (name, key) is recorded
Answered(log, name, key, answer) ==
    [i \in DOMAIN log |->
        IF log[i].req = name /\ log[i].key = key /\ log[i].ans = "pending"
          THEN [log[i] EXCEPT !.ans = answer] ELSE log[i]]

\* the requests of the log with a given name
Requests(log, name) == SelectSeq(log, LAMBDA e : e.req = name)

\* the elements of a set of numbers in ascending order
RECURSIVE SetToSeq(_)
SetToSeq(S) ==
    IF S = {} THEN <<>>
    ELSE LET m == CHOOSE x \in S : \A y \in S : x <= y
         IN <<m>> \o SetToSeq(S \ {m})

\* the module is loaded with the environment variables set (GH_REPOSITORY is
\* optional), main() has built the client and ensureValidToken has sent the probe
SyncInit ==
    /\ syPc = "probe"
    /\ syGhRepo \in BOOLEAN
    /\ syAccess = 0
    /\ syRefresh = 0
    /\ syStore = [access |-> 0, refresh |-> 0]
    /\ syLog = <<Request("probe", 0, 0, [access |-> 0, refresh |-> 0])>>
    /\ syFail = "none"
    /\ syP1 = [r \in P1Requests |-> "idle"]
    /\ syHistory = <<>>
    /\ syRawCal = [episodes |-> <<>>, movies |-> <<>>]
    /\ sySeasons = <<>>
    /\ syRatings = "idle"
    /\ syOut = <<>>
    /\ HookIdle /\ ApiParked /\ GhParked /\ FsParked /\ GcParked /\ EnParked /\ PxParked
    /\ DlParked /\ PgParked /\ GrParked /\ AuParked

\* main() rejects: main().catch logs the error and calls process.exit(1)
RunFails(cause, log) ==
    /\ syPc' = "failed"
    /\ syFail' = cause
    /\ syLog' = log

\* ensureValidToken has returned: phase 1 sends its three requests
StartPhase1(log, acc, store) ==
    /\ syPc' = "phase1"
    /\ syLog' = log \o <<Request("history", 0, acc, store),
                         Request("stats", 0, acc, store),
                         Request("calendar", 0, acc, store)>>
    /\ syP1' = [r \in P1Requests |-> "pending"]

\* the probe is answered with a status other than 401: ensureValidToken returns
ProbeNot401(answer) ==
    /\ syPc = "probe"
    /\ StartPhase1(Answered(syLog, "probe", 0, answer), syAccess, syStore)
    /\ UNCHANGED <<syGhRepo, syAccess, syRefresh, syStore, syFail, syHistory,
                   syRawCal, sySeasons, syRatings, syOut>>
    /\ UNCHANGED notSyncVars

\* the probe is answered 401: refreshTokens sends the token request
Probe401 ==
    /\ syPc = "probe"
    /\ syPc' = "refresh"
    /\ syLog' = Append(Answered(syLog, "probe", 0, "401"),
                       Request("token", 0, -1, syStore))
    /\ UNCHANGED <<syGhRepo, syAccess, syRefresh, syStore, syFail, syP1, syHistory,
                   syRawCal, sySeasons, syRatings, syOut>>
    /\ UNCHANGED notSyncVars

\* the token endpoint refuses: refreshTokens throws
RefreshFail ==
    /\ syPc = "refresh"
    /\ RunFails("refresh", Answered(syLog, "token", 0, "fail"))
    /\ UNCHANGED <<syGhRepo, syAccess, syRefresh, syStore, syP1, syHistory,
                   syRawCal, sySeasons, syRatings, syOut>>
    /\ UNCHANGED notSyncVars

\* the token endpoint returns a new pair: it is put in memory and the probe is
\* sent again with it
RefreshOk ==
    /\ syPc = "refresh"
    /\ syAccess' = 1
    /\ syRefresh' = 1
    /\ syPc' = "reprobe"
    /\ syLog' = Append(Answered(syLog, "token", 0, "ok"),
                       Request("probe", 1, 1, syStore))
    /\ UNCHANGED <<syGhRepo, syStore, syFail, syP1, syHistory, syRawCal, sySeasons,
                   syRatings, syOut>>
    /\ UNCHANGED notSyncVars

\* mutant of ReprobeFail: the answer of the second probe is not looked at
ReprobeFailIgnored ==
    /\ syPc = "reprobe"
    /\ StartPhase1(Answered(syLog, "probe", 1, "fail"), syAccess, syStore)
    /\ UNCHANGED <<syGhRepo, syAccess, syRefresh, syStore, syFail, syHistory,
                   syRawCal, sySeasons, syRatings, syOut>>
    /\ UNCHANGED notSyncVars

\* the second probe is not ok: ensureValidToken throws
ReprobeFail ==
    /\ syPc = "reprobe"
    /\ RunFails("reprobe", Answered(syLog, "probe", 1, "fail"))
    /\ UNCHANGED <<syGhRepo, syAccess, syRefresh, syStore, syP1, syHistory,
                   syRawCal, sySeasons, syRatings, syOut>>
    /\ UNCHANGED notSyncVars

\* the second probe is ok: updateGitHubTokenSecrets, which returns at once
\* without GH_REPOSITORY and asks for the repository's public key otherwise
ReprobeOk ==
    /\ syPc = "reprobe"
    /\ IF syGhRepo
         THEN /\ syPc' = "pubkey"
              /\ syLog' = Append(Answered(syLog, "probe", 1, "ok"),
                                 Request("pubkey", 0, -1, syStore))
              /\ UNCHANGED syP1
         ELSE StartPhase1(Answered(syLog, "probe", 1, "ok"), syAccess, syStore)
    /\ UNCHANGED <<syGhRepo, syAccess, syRefresh, syStore, syFail, syHistory,
                   syRawCal, sySeasons, syRatings, syOut>>
    /\ UNCHANGED notSyncVars

\* getRepoPublicKey, then the PUT of TRAKT_ACCESS_TOKEN
PubkeyOk ==
    /\ syPc = "pubkey"
    /\ syPc' = "secretAccess"
    /\ syLog' = Append(Answered(syLog, "pubkey", 0, "ok"),
                       Request("secret", 1, -1, syStore))
    /\ UNCHANGED <<syGhRepo, syAccess, syRefresh, syStore, syFail, syP1, syHistory,
                   syRawCal, sySeasons, syRatings, syOut>>
    /\ UNCHANGED notSyncVars

\* the PUT of TRAKT_ACCESS_TOKEN is accepted, then the PUT of TRAKT_REFRESH_TOKEN
SecretAccessOk ==
    /\ syPc = "secretAccess"
    /\ syStore' = [syStore EXCEPT !.access = syAccess]
    /\ syPc' = "secretRefresh"
    /\ syLog' = Append(Answered(syLog, "secret", 1, "ok"),
                       Request("secret", 2, -1, syStore'))
    /\ UNCHANGED <<syGhRepo, syAccess, syRefresh, syFail, syP1, syHistory, syRawCal,
                   sySeasons, syRatings, syOut>>
    /\ UNCHANGED notSyncVars

\* the PUT of TRAKT_REFRESH_TOKEN is accepted: ensureValidToken returns
SecretRefreshOk ==
    /\ syPc = "secretRefresh"
    /\ syStore' = [syStore EXCEPT !.refresh = syRefresh]
    /\ StartPhase1(Answered(syLog, "secret", 2, "ok"), syAccess, syStore')
    /\ UNCHANGED <<syGhRepo, syAccess, syRefresh, syFail, syHistory, syRawCal,
                   sySeasons, syRatings, syOut>>
    /\ UNCHANGED notSyncVars

\* a request of updateGitHubTokenSecrets is refused: getRepoPublicKey or
\* updateGitHubSecret throws, nothing catches it up to main().catch
SecretsFail ==
    /\ syPc \in {"pubkey", "secretAccess", "secretRefresh"}
    /\ RunFails("secrets",
                IF syPc = "pubkey" THEN Answered(syLog, "pubkey", 0, "fail")
                ELSE Answered(syLog, "secret",
                              IF syPc = "secretAccess" THEN 1 ELSE 2, "fail"))
    /\ UNCHANGED <<syGhRepo, syAccess, syRefresh, syStore, syP1, syHistory,
                   syRawCal, sySeasons, syRatings, syOut>>
    /\ UNCHANGED notSyncVars

\* the seasonsMap of phase 3 as far as it has arrived
SeasonsMapOf(seasons) ==
    [sl \in DOMAIN seasons |-> [se \in seasons[sl].seasons |-> SeasonFull]]

\* the answer of /sync/ratings/all in a run
SyncRatingItems == <<ShowRating(1, 8)>>

\* phases 4 and 5 up to the PATCH of the gist
WatchlogData(history, rawCalendar, seasons) ==
    [items |-> Slice(EnrichItems(GroupHistory(history), SeasonsMapOf(seasons),
                                 GetRatings(SyncRatingItems)),
                     OUTPUT_ITEMS_LIMIT),
     calendar |-> EnrichCalendar(rawCalendar, SeasonsMapOf(seasons))]

\* mutant of Phase1Fail: the rejection of one of the three is tolerated
Phase1FailTolerated(r) ==
    /\ syPc = "phase1" /\ syP1[r] = "pending"
    /\ syP1' = [syP1 EXCEPT ![r] = "fail"]
    /\ IF \A q \in P1Requests \ {r} : syP1[q] # "pending"
         THEN /\ syPc' = "phase3"
              /\ sySeasons' = <<>>
              /\ syRatings' = "pending"
              /\ syLog' = Append(Answered(syLog, r, 0, "fail"),
                                 Request("ratings", 0, syAccess, syStore))
         ELSE /\ syLog' = Answered(syLog, r, 0, "fail")
              /\ UNCHANGED <<syPc, sySeasons, syRatings>>
    /\ UNCHANGED <<syGhRepo, syAccess, syRefresh, syStore, syFail, syHistory,
                   syRawCal, syOut>>
    /\ UNCHANGED notSyncVars

\* one of history / stats / calendar is refused: Promise.all rejects
Phase1Fail(r) ==
    /\ syPc = "phase1" /\ syP1[r] = "pending"
    /\ syP1' = [syP1 EXCEPT ![r] = "fail"]
    /\ RunFails("phase1", Answered(syLog, r, 0, "fail"))
    /\ UNCHANGED <<syGhRepo, syAccess, syRefresh, syStore, syHistory, syRawCal,
                   sySeasons, syRatings, syOut>>
    /\ UNCHANGED notSyncVars

\* one of history / stats / calendar arrives; with the last one phase 2 groups
\* the history and collects the slugs, and phase 3 sends the seasons request of
\* every slug and the ratings request
Phase1Ok(r, history, rawCalendar) ==
    /\ syPc = "phase1" /\ syP1[r] = "pending"
    /\ syP1' = [syP1 EXCEPT ![r] = "ok"]
    /\ syHistory' = IF r = "history" THEN history ELSE syHistory
    /\ syRawCal' = IF r = "calendar" THEN rawCalendar ELSE syRawCal
    /\ IF \A q \in P1Requests : syP1'[q] = "ok"
         THEN LET slugs == CollectUniqueSlugs(GroupHistory(syHistory'), syRawCal')
                  order == SetToSeq(slugs)
              IN /\ syPc' = "phase3"
                 /\ sySeasons' = [sl \in slugs |-> [st |-> "pending", seasons |-> {}]]
                 /\ syRatings' = "pending"
                 /\ syLog' = Answered(syLog, r, 0, "ok")
                             \o [i \in DOMAIN order |->
                                   Request("seasons", order[i], syAccess, syStore)]
                             \o <<Request("ratings", 0, syAccess, syStore)>>
         ELSE /\ syLog' = Answered(syLog, r, 0, "ok")
              /\ UNCHANGED <<syPc, sySeasons, syRatings>>
    /\ UNCHANGED <<syGhRepo, syAccess, syRefresh, syStore, syFail, syOut>>
    /\ UNCHANGED notSyncVars

\* Promise.all of phase 3 resolves when every getShowSeasons has returned and
\* the ratings are there: phase 4 builds the document, updateGist sends it
Phase3Then(log, seasons, ratings) ==
    IF ratings = "ok" /\ \A sl \in DOMAIN seasons : seasons[sl].st # "pending"
      THEN /\ syPc' = "gist"
           /\ syLog' = Append(log, Request("gist", 0, -1, syStore))
      ELSE /\ syLog' = log
           /\ UNCHANGED syPc

\* the seasons of a show arrive
SeasonsOk(sl) ==
    /\ syPc = "phase3" /\ sl \in DOMAIN sySeasons /\ sySeasons[sl].st = "pending"
    /\ sySeasons' = [sySeasons EXCEPT ![sl] = [st |-> "ok", seasons |-> SeasonNos]]
    /\ Phase3Then(Answered(syLog, "seasons", sl, "ok"), sySeasons', syRatings)
    /\ UNCHANGED <<syGhRepo, syAccess, syRefresh, syStore, syFail, syP1, syHistory,
                   syRawCal, syRatings, syOut>>
    /\ UNCHANGED notSyncVars

\* mutant of SeasonsFail: getShowSeasons does not catch the error
SeasonsFailThrows(sl) ==
    /\ syPc = "phase3" /\ sl \in DOMAIN sySeasons /\ sySeasons[sl].st = "pending"
    /\ sySeasons' = [sySeasons EXCEPT ![sl] = [st |-> "fail", seasons |-> {}]]
    /\ RunFails("seasons", Answered(syLog, "seasons", sl, "fail"))
    /\ UNCHANGED <<syGhRepo, syAccess, syRefresh, syStore, syP1, syHistory,
                   syRawCal, syRatings, syOut>>
    /\ UNCHANGED notSyncVars

\* the seasons request of a show fails: getShowSeasons warns and returns an
\* empty Map
SeasonsFail(sl) ==
    /\ syPc = "phase3" /\ sl \in DOMAIN sySeasons /\ sySeasons[sl].st = "pending"
    /\ sySeasons' = [sySeasons EXCEPT ![sl] = [st |-> "fail", seasons |-> {}]]
    /\ Phase3Then(Answered(syLog, "seasons", sl, "fail"), sySeasons', syRatings)
    /\ UNCHANGED <<syGhRepo, syAccess, syRefresh, syStore, syFail, syP1, syHistory,
                   syRawCal, syRatings, syOut>>
    /\ UNCHANGED notSyncVars

\* the ratings arrive
RatingsOk ==
    /\ syPc = "phase3" /\ syRatings = "pending"
    /\ syRatings' = "ok"
    /\ Phase3Then(Answered(syLog, "ratings", 0, "ok"), sySeasons, "ok")
    /\ UNCHANGED <<syGhRepo, syAccess, syRefresh, syStore, syFail, syP1, syHistory,
                   syRawCal, sySeasons, syOut>>
    /\ UNCHANGED notSyncVars

\* the ratings request is refused: Promise.all rejects
RatingsFail ==
    /\ syPc = "phase3" /\ syRatings = "pending"
    /\ syRatings' = "fail"
    /\ RunFails("ratings", Answered(syLog, "ratings", 0, "fail"))
    /\ UNCHANGED <<syGhRepo, syAccess, syRefresh, syStore, syP1, syHistory,
                   syRawCal, sySeasons, syOut>>
    /\ UNCHANGED notSyncVars

\* the gist accepts the document
GistOk ==
    /\ syPc = "gist"
    /\ syPc' = "done"
    /\ syOut' = Append(syOut, WatchlogData(syHistory, syRawCal, sySeasons))
    /\ syLog' = Answered(syLog, "gist", 0, "ok")
    /\ UNCHANGED <<syGhRepo, syAccess, syRefresh, syStore, syFail, syP1, syHistory,
                   syRawCal, sySeasons, syRatings>>
    /\ UNCHANGED notSyncVars

\* the gist refuses: updateGist throws
GistFail ==
    /\ syPc = "gist"
    /\ RunFails("gist", Answered(syLog, "gist", 0, "fail"))
    /\ UNCHANGED <<syGhRepo, syAccess, syRefresh, syStore, syP1, syHistory,
                   syRawCal, sySeasons, syRatings, syOut>>
    /\ UNCHANGED notSyncVars

SyncNext ==
    \/ \E answer \in {"ok", "other"} : ProbeNot401(answer)
    \/ Probe401
    \/ RefreshFail
    \/ RefreshOk
    \/ ReprobeFail
    \/ ReprobeOk
    \/ PubkeyOk
    \/ SecretAccessOk
    \/ SecretRefreshOk
    \/ SecretsFail
    \/ \E r \in P1Requests : Phase1Fail(r)
    \/ \E r \in P1Requests, h \in HistoryChoices, c \in CalendarChoices :
          Phase1Ok(r, h, c)
    \/ \E sl \in ShowIds : SeasonsOk(sl)
    \/ \E sl \in ShowIds : SeasonsFail(sl)
    \/ RatingsOk
    \/ RatingsFail
    \/ GistOk
    \/ GistFail

SpecSync == SyncInit /\ [][SyncNext]_vars

----------------------------------------------------------------------------
(* yandex-music-proxy: the Cloudflare Worker                              *)

YANDEX_API_HOST == "api.music.yandex.net"

ALLOWED_ORIGINS ==
    {[scheme |-> "https", host |-> "www.ykvlv.dev", port |-> 0],
     [scheme |-> "http", host |-> "localhost", port |-> 5173]}

ALLOWED_PATH_PREFIXES ==
    {<<"/", "a", "c", "c", "o", "u", "n", "t", "/", "s", "t", "a", "t", "u", "s">>,
     <<"/", "u", "s", "e", "r", "s", "/">>,
     <<"/", "t", "r", "a", "c", "k", "s">>}

ALLOWED_EXTERNAL_HOSTS == {"api.music.yandex.net"}

DownloadInfoPath == <<"/", "d", "o", "w", "n", "l", "o", "a", "d", "-", "i", "n", "f", "o">>
ProxyAudioPath == <<"/", "p", "r", "o", "x", "y", "-", "a", "u", "d", "i", "o">>

\* the port a scheme implies
DefaultPort(scheme) == IF scheme = "https" THEN 443 ELSE 80

\* new URL(s).origin: scheme, host and the port unless it is the default one
UrlOrigin(u) ==
    [scheme |-> u.scheme, host |-> u.host,
     port |-> IF u.port = DefaultPort(u.scheme) THEN 0 ELSE u.port]

\* isExternalUrlAllowed(urlString)
IsExternalUrlAllowed(urlString) ==
    urlString.parses /\ urlString.host \in ALLOWED_EXTERNAL_HOSTS

\* mutant of IsOriginAllowed: every origin passes
IsOriginAllowedAny(origin) == TRUE

\* isOriginAllowed(origin)
IsOriginAllowed(origin) ==
    origin.parses /\ UrlOrigin(origin) \in ALLOWED_ORIGINS

\* pathname.startsWith(prefix)
StartsWith(s, prefix) ==
    Len(s) >= Len(prefix) /\ SubSeq(s, 1, Len(prefix)) = prefix

\* the requests the worker is sent
PxMethods == {"GET", "POST", "OPTIONS"}

PxOrigins ==
    {NoString, NotUrl(FALSE),
     UrlString("https", "www.ykvlv.dev", 0, <<>>),
     UrlString("https", "www.ykvlv.dev", 443, <<>>),
     UrlString("https", "www.ykvlv.dev", 0, <<"/", "x">>),
     UrlString("http", "www.ykvlv.dev", 0, <<>>),
     UrlString("http", "localhost", 5173, <<>>),
     UrlString("http", "localhost", 0, <<>>),
     UrlString("https", "evil.example", 0, <<>>),
     UrlString("https", "www.ykvlv.dev.evil.example", 0, <<>>)}

PxPaths ==
    {<<"/", "a", "c", "c", "o", "u", "n", "t", "/", "s", "t", "a", "t", "u", "s">>,
     <<"/", "u", "s", "e", "r", "s", "/", "1", "/", "p", "l", "a", "y", "l", "i", "s", "t", "s">>,
     <<"/", "u", "s", "e", "r", "s">>,
     <<"/", "t", "r", "a", "c", "k", "s">>,
     <<"/", "t", "r", "a", "c", "k", "s", "x">>,
     <<"/">>,
     <<"/", "d", "o", "w", "n", "l", "o", "a", "d", "-", "i", "n", "f", "o">>,
     <<"/", "p", "r", "o", "x", "y", "-", "a", "u", "d", "i", "o">>,
     <<"/", "d", "o", "w", "n", "l", "o", "a", "d", "-", "i", "n", "f", "o", "/", "x">>,
     <<"/", "l", "a", "n", "d", "i", "n", "g">>}

PxParams ==
    {NoString, NotUrl(TRUE), NotUrl(FALSE),
     UrlString("https", "api.music.yandex.net", 0, <<"/", "a">>),
     UrlString("http", "api.music.yandex.net", 8080, <<"/", "a">>),
     UrlString("https", "storage.yandex.net", 0, <<"/", "a">>),
     UrlString("https", "api.music.yandex.net.evil.example", 0, <<"/", "a">>)}

PxUpstreamStatuses == {200, 404}

PxInit ==
    /\ pxMethod \in PxMethods
    /\ pxOrigin \in PxOrigins
    /\ pxPath \in PxPaths
    /\ pxParam \in PxParams
    /\ pxPc = "recv"
    /\ pxUpstream = <<>>
    /\ pxStatus = 0
    /\ HookIdle /\ ApiParked /\ ScriptParked /\ DlParked /\ PgParked /\ GrParked /\ AuParked

\* the worker answers without an upstream request
PxRespond(status) ==
    /\ pxPc' = "done"
    /\ pxStatus' = status
    /\ UNCHANGED pxUpstream

\* the worker calls fetch(target) and awaits the answer
PxContact(host, path) ==
    /\ pxPc' = "upstream"
    /\ pxUpstream' = Append(pxUpstream, [host |-> host, path |-> path])
    /\ UNCHANGED pxStatus

\* handleDownloadInfo / handleProxyAudio up to the call of proxyExternalUrl
PxHandleExternal ==
    IF pxParam.null \/ pxParam.empty THEN PxRespond(400)
    ELSE IF ~IsExternalUrlAllowed(pxParam) THEN PxRespond(403)
    ELSE PxContact(pxParam.host, pxParam.path)

\* handleYandexApiProxy up to the call of fetch
PxHandleYandexApiProxy ==
    IF ~(\E prefix \in ALLOWED_PATH_PREFIXES : StartsWith(pxPath, prefix))
      THEN PxRespond(403)
      ELSE PxContact(YANDEX_API_HOST, pxPath)

\* fetch(request) of the worker, up to its first await
PxFetch ==
    /\ pxPc = "recv"
    /\ IF pxMethod = "OPTIONS" THEN PxRespond(204)
       ELSE IF ~IsOriginAllowed(IF pxOrigin.null THEN NotUrl(TRUE) ELSE pxOrigin)
         THEN PxRespond(403)
       ELSE IF pxPath \in {DownloadInfoPath, ProxyAudioPath}
         THEN PxHandleExternal
       ELSE PxHandleYandexApiProxy
    /\ UNCHANGED <<pxMethod, pxOrigin, pxPath, pxParam>>
    /\ UNCHANGED notPxVars

\* the upstream answers: its status is passed on
PxUpstreamResponds(status) ==
    /\ pxPc = "upstream"
    /\ pxPc' = "done"
    /\ pxStatus' = status
    /\ UNCHANGED <<pxMethod, pxOrigin, pxPath, pxParam, pxUpstream>>
    /\ UNCHANGED notPxVars

\* the upstream fetch throws: errorResponse
PxUpstreamThrows ==
    /\ pxPc = "upstream"
    /\ pxPc' = "done"
    /\ pxStatus' = 502
    /\ UNCHANGED <<pxMethod, pxOrigin, pxPath, pxParam, pxUpstream>>
    /\ UNCHANGED notPxVars

PxNext ==
    \/ PxFetch
    \/ \E status \in PxUpstreamStatuses : PxUpstreamResponds(status)
    \/ PxUpstreamThrows

SpecProxy == PxInit /\ [][PxNext]_vars

----------------------------------------------------------------------------
(* Properties of the mutations hook                                        *)

\* C1: a call of addTrackToPlaylist(T, P) or unlikeTrack(T) made while an
\* earlier call with the same input has not settled starts no remote operation
\* of its own: it returns the promise of the earlier call, which one call
\* created, and so both resolve to the same MutationResult.
C1_Dedup ==
    \A j \in DOMAIN calls :
        calls[j].over # 0
        => LET i == calls[j].over
           IN /\ calls[j].prom # j
              /\ calls[j].prom # 0
              /\ calls[j].prom = calls[i].prom
              /\ calls[calls[j].prom].prom = calls[j].prom
              /\ ResultOf(calls, j) = ResultOf(calls, i)

\* C1 witness: two overlapping adds of the same track to the same playlist
\* have both resolved
C1_Witness ==
    \E j \in DOMAIN calls :
        /\ calls[j].kind = "add"
        /\ calls[j].over # 0
        /\ calls[calls[j].over].p = calls[j].p
        /\ ResultOf(calls, j) \in {"ok", "error"}

\* C2: when an add fails (no cancellation) while no refresh is in progress, and
\* nothing else has changed the playlist in between, the playlist's membership
\* set and trackCount are what they were when the call was made.
C2_FailedAddRestores ==
    [][\A i \in DOMAIN calls :
          (/\ calls[i].kind = "add" /\ calls[i].st = "inflight" /\ calls[i].clean
           /\ calls'[i].st = "settled" /\ calls'[i].result = "error"
           /\ ~RefreshInProgress)
          => /\ EffSetNext(calls[i].p) = calls[i].preSet
             /\ EffCountNext(calls[i].p) = calls[i].preCount]_vars

\* C3: while a mutation is in flight its track is marked pending and the delta
\* is already visible: the track is in the (locally known) playlist's
\* membership set, or gone from the liked list.
C3_OptimisticDelta ==
    \A i \in DOMAIN calls :
        calls[i].st = "inflight"
        => IF calls[i].kind = "add"
             THEN /\ calls[i].t \in pendingAdds
                  /\ calls[i].p \in EffPlaylists.has => calls[i].t \in EffSet(calls[i].p)
             ELSE /\ calls[i].t \in pendingUnlikes
                  /\ ~SeqHas(EffLiked, calls[i].t)

\* C4: a mutation that resolves (success or failure, not cancellation) while a
\* refresh is in progress invokes neither the apply-delta nor the rollback
\* callback; one that resolves while no refresh is in progress invokes the
\* apply-delta callback on success and the rollback callback on failure.
C4_RefreshDecidesAtResolution ==
    \A i \in DOMAIN calls :
        (calls[i].st = "settled" /\ calls[i].result \in {"ok", "error"})
        => IF calls[i].rip
             THEN calls[i].cb \in {"none", "duringRefresh"}
             ELSE calls[i].cb = (IF calls[i].result = "ok" THEN "apply" ELSE "rollback")

\* C5: a mutation that succeeds while a refresh is in progress sets the
\* mutation-during-refresh flag, and the refresh loop, resuming after an attempt
\* during which a mutation succeeded, runs the fetch again if fewer than
\* MAX_REFRESH_ATTEMPTS fetches have been made.
C5_MutationDuringRefreshRefetches ==
    [][/\ (\E i \in DOMAIN calls :
              /\ calls[i].st = "inflight" /\ calls'[i].result = "ok"
              /\ RefreshInProgress)
          => mutFlag'
       /\ (/\ orch.pc = "resume" /\ orch' # orch /\ orch.mutSucc
           /\ orch.ouid # 0 /\ orch.fetches < MAX_REFRESH_ATTEMPTS)
          => orch'.fetches = orch.fetches + 1]_vars

\* C6: an unmount or a change of uid aborts the network call of every mutation
\* in flight and empties both pending sets; an aborted mutation resolves to the
\* cancelled result and its continuation invokes no callback and leaves the
\* local state and the mutation-during-refresh flag alone, also when the hook is
\* active again for the new uid by then.
C6_Inv ==
    \A i \in DOMAIN calls : calls[i].result = "cancelled" => calls[i].cb = "none"

C6_Step ==
    /\ (uid' # uid \/ (alive /\ ~alive'))
       => /\ pendingAdds' = {} /\ pendingUnlikes' = {}
          /\ pendingAddsRef' = {} /\ pendingUnlikesRef' = {}
          /\ \A i \in DOMAIN calls : calls[i].st = "inflight" => calls'[i].st = "aborted"
    /\ \A i \in DOMAIN calls :
          (calls[i].st = "aborted" /\ calls'[i].st # "aborted")
          => /\ calls'[i].result = "cancelled"
             /\ calls'[i].cb = "none"
             /\ UNCHANGED <<lPlaylists, lLiked, lTracks, mutFlag>>

C6_CancelIsVoid == []C6_Inv /\ [][C6_Step]_vars

\* C6 witness: a mutation was cancelled by a change of uid and has resolved
\* while the hook is mounted for the new user
C6_Witness ==
    /\ alive /\ isMountedRef /\ uid # 0 /\ idChanges > 0
    /\ \E i \in DOMAIN calls : calls[i].result = "cancelled"

\* C7: the promise of a call never rejects: it resolves to success, or to a
\* failure with a message (error, cancelled, not initialised); a call made
\* without api and uid resolves at once to the not-initialised failure, starts
\* no remote operation and marks nothing pending.
C7_Inv ==
    \A i \in DOMAIN calls :
        /\ ResultOf(calls, i) \in {"none", "ok", "error", "cancelled", "notinit"}
        /\ calls[i].st = "settled" => calls[i].result # "none"

C7_Step ==
    /\ (Len(calls') = Len(calls) + 1 /\ uid = 0)
       => /\ calls'[Len(calls')].result = "notinit"
          /\ calls'[Len(calls')].prom = 0
          /\ UNCHANGED <<pendingAddsRef, pendingAdds, pendingUnlikesRef,
                         pendingUnlikes, inFlightAdds, inFlightUnlikes, ctlAdd,
                         ctlUnlike>>
    /\ \A i \in DOMAIN calls :
          /\ (calls[i].st = "aborted" /\ calls'[i].st = "settled")
             => calls'[i].result = "cancelled"
          /\ (calls[i].st = "inflight" /\ calls'[i].st = "settled")
             => calls'[i].result \in {"ok", "error"}

C7_NeverRejects == []C7_Inv /\ [][C7_Step]_vars

\* C7 witness: one call failed or was cancelled, another was made without a user
C7_Witness ==
    /\ \E i \in DOMAIN calls : calls[i].result = "notinit"
    /\ \E i \in DOMAIN calls : calls[i].result \in {"error", "cancelled"}

----------------------------------------------------------------------------
(* Properties of usePlaylistsData.refresh                                  *)

\* the fetch counts of the refresh() loop, for calls made with a user
\* (WithUser) or for every call (~WithUser)
RefreshStep(withUserOnly) ==
    /\ (orch.pc = "resume" /\ orch'.pc = "idle" /\ (withUserOnly => orch.ouid # 0))
       => orch.fetches >= 1
    /\ (orch.pc = "resume" /\ orch'.pc = "idle" /\ orch.ouid = 0 /\ withUserOnly)
       => orch.fetches = 0
    /\ (orch.pc = "resume" /\ orch'.pc = "waiting")
       => /\ mutFlag
          /\ orch.attempt < MAX_REFRESH_ATTEMPTS - 1
          /\ orch'.fetches = orch.fetches + 1
          /\ orch'.attempt = orch.attempt + 1
    /\ (orch.pc = "resume" /\ orch.attempt = MAX_REFRESH_ATTEMPTS - 1 /\ orch' # orch)
       => orch'.pc = "idle"

RefreshCeiling ==
    /\ orch.fetches <= MAX_REFRESH_ATTEMPTS
    /\ orch.attempt <= MAX_REFRESH_ATTEMPTS - 1
    /\ orch.fetches <= orch.attempt + 1

\* C11 (as stated): every call of refresh() makes at least one and at most
\* MAX_REFRESH_ATTEMPTS fetches and then returns; it fetches again only when the
\* mutation-during-refresh flag was set during the attempt just finished.
C11_RefreshAtLeastOnce ==
    [](RefreshCeiling) /\ [][RefreshStep(FALSE)]_vars

\* C11 (amended): a call of refresh() made while api and uid are present makes
\* at least one and at most MAX_REFRESH_ATTEMPTS fetches and then returns, even
\* if a mutation is flagged during every attempt (each resumption either
\* returns or starts the next attempt, and the last attempt always returns); it
\* fetches again only when the flag was set during the attempt just finished;
\* a call made without api or uid returns without any fetch.
C11_RefreshBounded == [](RefreshCeiling) /\ [][RefreshStep(TRUE)]_vars

\* C11 witness: the last attempt has finished with the flag set again
C11_Witness ==
    /\ orch.pc = "resume" /\ orch.ouid # 0
    /\ orch.attempt = MAX_REFRESH_ATTEMPTS - 1
    /\ orch.fetches = MAX_REFRESH_ATTEMPTS
    /\ mutFlag

----------------------------------------------------------------------------
(* Properties of YandexMusicAPI.addTrackToPlaylist                         *)

\* the names of the answers that are rejections for a stale revision
ConflictNames == { e.name : e \in { x \in RemoteErrors : x.conflict } }

\* the log is n diff submissions rejected for a stale revision
IsConflictRun(log) ==
    \A i \in 1..Len(log) : log[i].stage = "post" /\ log[i].name \in ConflictNames

\* the log is n such rejections followed by an accepted submission
IsConflictsThenAccept(log) ==
    /\ Len(log) >= 1
    /\ log[Len(log)] = [stage |-> "post", name |-> "accepted"]
    /\ IsConflictRun(SubSeq(log, 1, Len(log) - 1))

\* C8: N < MAX_REVISION_RETRIES revision conflicts followed by an accepted
\* submission make the call resolve, after exactly N+1 revision fetches and N+1
\* diff submissions; while only conflicts have been answered, fewer than the
\* ceiling, the call has not given up; and the k-th backoff delay of any call
\* is min(RETRY_BASE_DELAY_MS * 2^k, RETRY_MAX_DELAY_MS), so the delays never
\* decrease and never exceed the cap.
C8_ConflictsThenSuccess ==
    /\ (apiRetries = MAX_REVISION_RETRIES /\ ~apiAborted
          /\ IsConflictRun(apiLog) /\ Len(apiLog) < MAX_REVISION_RETRIES)
        => apiResult = "none"
    /\ (apiRetries = MAX_REVISION_RETRIES /\ IsConflictsThenAccept(apiLog))
        => /\ Len(apiLog) - 1 < MAX_REVISION_RETRIES
           /\ apiPc = "done"
           /\ apiResult = "ok"
           /\ apiRevFetches = Len(apiLog)
           /\ apiSubmits = Len(apiLog)
           /\ Len(apiDelays) = Len(apiLog) - 1
    /\ \A k \in 1..Len(apiDelays) :
          /\ apiDelays[k] = IF RETRY_BASE_DELAY_MS * 2^(k - 1) < RETRY_MAX_DELAY_MS
                              THEN RETRY_BASE_DELAY_MS * 2^(k - 1)
                              ELSE RETRY_MAX_DELAY_MS
          /\ apiDelays[k] <= RETRY_MAX_DELAY_MS
          /\ k > 1 => apiDelays[k - 1] <= apiDelays[k]

\* C8 witness: two conflicts, then the third attempt is accepted
C8_Witness ==
    /\ apiRetries = MAX_REVISION_RETRIES
    /\ Len(apiLog) = MAX_REVISION_RETRIES
    /\ IsConflictsThenAccept(apiLog)
    /\ apiResult = "ok"
    /\ apiDelays = <<100, 200>>

\* C9: an attempt that fails with an error that is not a revision conflict ends
\* the call with that error at once: it is the last answer of the call, and no
\* delay is waited after it.
C9_NonConflictPropagates ==
    \A i \in 1..Len(apiLog) :
        (apiLog[i].name \notin ConflictNames \cup {"accepted"})
        => /\ i = Len(apiLog)
           /\ apiPc = "done"
           /\ apiResult = "error"

\* C10: with the default ceiling, a call never issues more than
\* MAX_REVISION_RETRIES revision fetches or diff submissions; answered with a
\* conflict every time it rejects after exactly MAX_REVISION_RETRIES of each;
\* and every call terminates.
C10_Safety ==
    apiRetries = MAX_REVISION_RETRIES
    => /\ apiRevFetches <= MAX_REVISION_RETRIES
       /\ apiSubmits <= MAX_REVISION_RETRIES
       /\ apiAttempt < MAX_REVISION_RETRIES
       /\ (IsConflictRun(apiLog) /\ Len(apiLog) = MAX_REVISION_RETRIES)
          => /\ apiPc = "done"
             /\ apiResult = "exhausted"
             /\ apiRevFetches = MAX_REVISION_RETRIES
             /\ apiSubmits = MAX_REVISION_RETRIES
       /\ apiResult = "exhausted"
          => /\ Len(apiLog) = MAX_REVISION_RETRIES
             /\ apiRevFetches = MAX_REVISION_RETRIES

C10_BoundedRetries == []C10_Safety /\ <>(apiPc = "done")

\* C10 witness: three conflicts in a row, the call has rejected
C10_Witness ==
    /\ apiRetries = MAX_REVISION_RETRIES
    /\ IsConflictRun(apiLog)
    /\ Len(apiLog) = MAX_REVISION_RETRIES
    /\ apiResult = "exhausted"

----------------------------------------------------------------------------
(* Properties of a sync run                                                *)

\* how often v occurs in q
Count(q, v) == Cardinality({i \in DOMAIN q : q[i] = v})

Probes == Requests(syLog, "probe")
TokenRequests == Requests(syLog, "token")
DataRequests ==
    SelectSeq(syLog, LAMBDA e : e.req \in P1Requests \cup {"seasons", "ratings"})
GistRequests == Requests(syLog, "gist")

\* C12: a 401 on the probe leads to exactly one token request and, once that
\* has returned the new pair, to exactly one more probe, sent with the new
\* access token; if that probe is not ok the run has failed with one token
\* request made, no history / stats / calendar request sent and nothing
\* published.
C12_OneRefreshOneReprobe ==
    /\ Len(TokenRequests) <= 1
    /\ Len(Probes) <= 2
    /\ Probes[1].tok = 0
    /\ Probes[1].ans = "401" <=> Len(TokenRequests) = 1
    /\ (Len(TokenRequests) = 1 /\ TokenRequests[1].ans = "ok") <=> Len(Probes) = 2
    /\ Len(Probes) = 2
       => /\ Probes[2].tok = 1 /\ syAccess = 1
          /\ Probes[2].ans = "fail"
             => /\ syPc = "failed"
                /\ Len(TokenRequests) = 1
                /\ DataRequests = <<>>
                /\ GistRequests = <<>>
                /\ syOut = <<>>

\* C12 witness: the probe with the new token was refused
C12_Witness ==
    /\ Len(Probes) = 2 /\ Probes[2].ans = "fail"
    /\ syPc = "failed"

\* C13: every request sent with the new access token is sent when the secret
\* store already holds the new access/refresh pair.
C13_PersistedBeforeUse ==
    \A i \in DOMAIN syLog : syLog[i].tok = 1 => syLog[i].stored

\* C14: when a write of the refreshed credentials to the secret store has
\* failed, the credentials in memory are the new ones and the run has not
\* failed because of it: it goes on to fetch.
C14_PersistFailureTolerated ==
    (\E i \in DOMAIN syLog :
        syLog[i].req \in {"pubkey", "secret"} /\ syLog[i].ans = "fail")
    => /\ syAccess = 1 /\ syRefresh = 1
       /\ syFail # "secrets"
       /\ Requests(syLog, "history") # <<>>

\* C15: a failed seasons request does not fail the run: the show gets an empty
\* season lookup, the other shows keep what they got, and once all seasons
\* requests have returned and the ratings are there the document is built with
\* one display item per grouped record (up to the limit) and sent to the gist.
C15_Inv ==
    /\ syFail # "seasons"
    /\ \A sl \in DOMAIN sySeasons :
          /\ sySeasons[sl].st = "fail" => DOMAIN SeasonsMapOf(sySeasons)[sl] = {}
          /\ sySeasons[sl].st = "ok" => DOMAIN SeasonsMapOf(sySeasons)[sl] = SeasonNos
    /\ (/\ syRatings = "ok"
        /\ \A sl \in DOMAIN sySeasons : sySeasons[sl].st # "pending")
       => /\ Len(GistRequests) = 1
          /\ Len(EnrichItems(GroupHistory(syHistory), SeasonsMapOf(sySeasons),
                             GetRatings(SyncRatingItems)))
               = Len(GroupHistory(syHistory))
    /\ \A k \in DOMAIN syOut :
          Len(syOut[k].items) = Min(Len(GroupHistory(syHistory)), OUTPUT_ITEMS_LIMIT)

C15_Step ==
    \A sl \in DOMAIN sySeasons :
        (sySeasons[sl].st = "pending" /\ sySeasons'[sl].st = "fail")
        => /\ syPc' \in {"phase3", "gist"}
           /\ \A o \in DOMAIN sySeasons \ {sl} : sySeasons'[o] = sySeasons[o]

C15_SeasonFailureTolerated == []C15_Inv /\ [][C15_Step]_vars

\* C15 witness: published although the seasons of one show failed and those of
\* another arrived
C15_Witness ==
    /\ syPc = "done" /\ Len(syOut) = 1
    /\ \E a, b \in DOMAIN sySeasons :
          sySeasons[a].st = "fail" /\ sySeasons[b].st = "ok"

\* ensureValidToken has returned
TokenValidated ==
    /\ Probes[Len(Probes)].ans \in {"ok", "other"}
    /\ \A i \in DOMAIN syLog :
          syLog[i].req \in {"pubkey", "secret", "token"} => syLog[i].ans = "ok"

\* C16: the gist is written at most once in a run, and only when the token
\* validation, the history, stats and calendar fetches, every seasons fetch and
\* the ratings fetch have completed; if history, stats or calendar failed,
\* nothing is published.
C16_PublishOnceAfterAll ==
    /\ Len(GistRequests) <= 1
    /\ Len(syOut) <= 1
    /\ (GistRequests # <<>> \/ syOut # <<>>)
       => /\ TokenValidated
          /\ \A r \in P1Requests : syP1[r] = "ok"
          /\ \A sl \in DOMAIN sySeasons : sySeasons[sl].st \in {"ok", "fail"}
          /\ syRatings = "ok"
          /\ \A i \in DOMAIN DataRequests : DataRequests[i].ans # "pending"
    /\ (\E r \in P1Requests : syP1[r] = "fail")
       => GistRequests = <<>> /\ syOut = <<>>

\* C16 witness: a run that refreshed the token has published
C16_Witness ==
    /\ syPc = "done" /\ Len(syOut) = 1 /\ syAccess = 1
    /\ syStore = [access |-> 1, refresh |-> 1]

\* the day a date string stands for
DayOf(date) == 10 * CharCode(date[1]) + CharCode(date[2])

\* C17: the published items are the first min(n, OUTPUT_ITEMS_LIMIT) records of
\* the enriched history in their order; the published calendar has every
\* calendar record (the grouped episodes and the movies), none lost and none
\* added, in ascending order of the date.
C17_TruncatedItemsFullCalendar ==
    \A k \in DOMAIN syOut :
        LET enriched == EnrichItems(GroupHistory(syHistory), SeasonsMapOf(sySeasons),
                                    GetRatings(SyncRatingItems))
            records == CalendarItems(syRawCal, SeasonsMapOf(sySeasons))
            doc == syOut[k]
        IN /\ Len(doc.items) = Min(Len(enriched), OUTPUT_ITEMS_LIMIT)
           /\ \A i \in DOMAIN doc.items : doc.items[i] = enriched[i]
           /\ Len(doc.calendar) = Len(records)
           /\ Len(records) = Len(GroupCalendarEpisodes(syRawCal.episodes))
                               + Len(syRawCal.movies)
           /\ \A i \in DOMAIN records :
                 Count(doc.calendar, records[i]) = Count(records, records[i])
           /\ \A i, j \in DOMAIN doc.calendar :
                 i < j => DayOf(doc.calendar[i].date) <= DayOf(doc.calendar[j].date)

\* C17 witness: a history and a calendar longer than the limit were published
C17_Witness ==
    /\ Len(syOut) = 1
    /\ Len(GroupHistory(syHistory)) > OUTPUT_ITEMS_LIMIT
    /\ Len(syOut[1].calendar) > OUTPUT_ITEMS_LIMIT

----------------------------------------------------------------------------
(* Properties of groupHistory                                              *)

\* the events of the input that carry their payload
WellFormed(history) == SelectSeq(history, LAMBDA e : e.has)

\* the events without their watched_at
Unstamped(history) == [i \in DOMAIN history |-> [history[i] EXCEPT !.watched_at = 0]]

\* a grouped item written back as the events it stands for
ItemEvents(it) ==
    IF it.type = "movie" THEN <<MovieEvent(it.id)>>
    ELSE [i \in 1..Len(it.episodes) |-> EpisodeEvent(it.show, it.season, it.episodes[i])]

RECURSIVE Flatten(_)
Flatten(items) ==
    IF Len(items) = 0 THEN <<>>
    ELSE Flatten(SubSeq(items, 1, Len(items) - 1)) \o ItemEvents(items[Len(items)])

\* C18: written back event by event in output order, the season-groups and the
\* movies of groupHistory's result are exactly the input sequence: no episode
\* number is dropped, duplicated or moved to another group, every movie is a
\* record of its own at its input position, after the group that was open
\* when it arrived; no group is empty.
C18_GroupingPreservesEvents ==
    ghDone =>
        /\ Flatten(ghItems) = Unstamped(WellFormed(ghInput))
        /\ \A g \in DOMAIN ghItems :
              ghItems[g].type = "season" => Len(ghItems[g].episodes) >= 1

\* C18 witness: a group, closed by a movie, and another group
C18_Witness ==
    /\ ghDone
    /\ ghInput = Stamp(<<EpisodeEvent(1, 1, 2), EpisodeEvent(1, 1, 1), MovieEvent(1),
                         EpisodeEvent(2, 1, 1)>>)
    /\ Len(ghItems) = 3

\* the index of the output item that holds the k-th well-formed input event
GroupIdx(items, k) ==
    CHOOSE g \in DOMAIN items :
        /\ Len(Flatten(SubSeq(items, 1, g - 1))) < k
        /\ k <= Len(Flatten(SubSeq(items, 1, g)))

\* C19: two episode events are in the same season-group exactly when they have
\* the same show id and season and every event between them is an episode of
\* that show id and season as well.
C19_GroupsAreMaximalRuns ==
    ghDone =>
        LET W == WellFormed(ghInput)
        IN /\ Len(Flatten(ghItems)) = Len(W)
           /\ \A i, j \in DOMAIN W :
                (i < j /\ W[i].type = "episode" /\ W[j].type = "episode")
                => ((GroupIdx(ghItems, i) = GroupIdx(ghItems, j))
                    <=> \A k \in i..j :
                           /\ W[k].type = "episode"
                           /\ W[k].show = W[i].show
                           /\ W[k].season = W[i].season)

\* C19 witness: a show and season that comes back after another season of the
\* same show starts a new group
C19_Witness ==
    /\ ghDone
    /\ ghInput = Stamp(<<EpisodeEvent(1, 1, 1), EpisodeEvent(1, 2, 1),
                         EpisodeEvent(1, 1, 2)>>)
    /\ Len(ghItems) = 3

\* the position, among the well-formed input events, of the event that opened
\* the g-th output item
OpenedBy(items, g) == Len(Flatten(SubSeq(items, 1, g - 1))) + 1

\* C31: the watched_at of a season-group is the watched_at of the input event
\* that opened the group, whatever episodes were merged into it afterwards
C31_WatchedAtOfOpeningEvent ==
    ghDone =>
        LET W == WellFormed(ghInput)
        IN \A g \in DOMAIN ghItems :
              ghItems[g].type = "season"
              => /\ OpenedBy(ghItems, g) \in DOMAIN W
                 /\ ghItems[g].watched_at = W[OpenedBy(ghItems, g)].watched_at

\* C31 witness: two later episodes were merged into the group that the first
\* event opened
C31_Witness ==
    /\ ghDone
    /\ ghInput = Stamp(<<EpisodeEvent(1, 1, 2), EpisodeEvent(1, 1, 1),
                         EpisodeEvent(1, 1, 2)>>)
    /\ Len(ghItems) = 1
    /\ Len(ghItems[1].episodes) = 3
    /\ ghItems[1].watched_at = 3

----------------------------------------------------------------------------
(* Properties of formatEpisodeSubtitle                                     *)

\* the rearrangements of q
PermsOf(q) ==
    {r \in [DOMAIN q -> {q[i] : i \in DOMAIN q}] :
        \A v \in {q[i] : i \in DOMAIN q} : Count(r, v) = Count(q, v)}

\* the ascending rearrangement of q
Ascending(q) ==
    CHOOSE r \in PermsOf(q) : \A i \in DOMAIN r : i = 1 \/ r[i - 1] <= r[i]

\* C20: the subtitle is 'S{season} E{n}' for one episode, 'S{season}
\* E{first}-{last}' when the ascending list goes up by one at every step, and
\* 'S{season} E{n1,n2,...}' with the numbers ascending otherwise; every
\* rearrangement of the input list gives the same subtitle.
C20_SubtitleFormat ==
    fsDone =>
        LET a == Ascending(fsEpisodes)
            n == Len(a)
            head == <<"S">> \o Str(fsSeason) \o <<" ", "E">>
        IN /\ n = 1 => fsResult = head \o Str(a[1])
           /\ (n > 1 /\ \A i \in 2..n : a[i] = a[i - 1] + 1)
              => fsResult = head \o Str(a[1]) \o <<"-">> \o Str(a[n])
           /\ (n > 1 /\ \E i \in 2..n : a[i] # a[i - 1] + 1)
              => fsResult = head \o Join(a)
           /\ \A r \in PermsOf(fsEpisodes) :
                 FormatEpisodeSubtitle(fsSeason, r) = fsResult

\* C20 witness: formatEpisodeSubtitle(1, [2, 1]) = 'S1 E1-2'
C20_Witness ==
    /\ fsDone /\ fsSeason = 1 /\ fsEpisodes = <<2, 1>>
    /\ fsResult = <<"S", "1", " ", "E", "1", "-", "2">>

----------------------------------------------------------------------------
(* Properties of groupCalendarEpisodes                                     *)

\* the day, show and season of a calendar episode
SiteOf(ep) == <<SubSeq(ep.first_aired, 1, 2), ep.show, ep.season>>

\* the episodes of the input that fall on site k, in input order
Contributing(episodes, k) == SelectSeq(episodes, LAMBDA ep : SiteOf(ep) = k)

\* the type of highest rank among the episodes of q
HighestType(q) ==
    CHOOSE ty \in {q[i].episode_type : i \in DOMAIN q} :
        \A i \in DOMAIN q :
            EPISODE_TYPE_PRIORITY[q[i].episode_type] <= EPISODE_TYPE_PRIORITY[ty]

\* C21: groupCalendarEpisodes returns exactly one record per distinct (day,
\* show, season) of the input; the record holds the number of every episode of
\* that day, show and season, and its episode_type is the highest-ranked type
\* among them (series_finale > season_finale > mid_season_finale >
\* series_premiere > season_premiere > mid_season_premiere > standard).
C21_OneRecordPerKey ==
    gcDone =>
        LET sites == {SiteOf(gcInput[i]) : i \in DOMAIN gcInput}
        IN /\ Len(gcGroups) = Cardinality(sites)
           /\ \A k \in sites :
                 \E g \in DOMAIN gcGroups :
                    LET c == Contributing(gcInput, k)
                    IN /\ <<gcGroups[g].date, gcGroups[g].show, gcGroups[g].season>> = k
                       /\ Len(gcGroups[g].episodes) = Len(c)
                       /\ \A n \in EpisodeNos :
                             Count(gcGroups[g].episodes, n)
                               = Count([i \in DOMAIN c |-> c[i].number], n)
                       /\ gcGroups[g].episode_type = HighestType(c)
           /\ EPISODE_TYPE_PRIORITY["series_finale"] > EPISODE_TYPE_PRIORITY["season_finale"]
           /\ EPISODE_TYPE_PRIORITY["season_finale"] > EPISODE_TYPE_PRIORITY["mid_season_finale"]
           /\ EPISODE_TYPE_PRIORITY["mid_season_finale"] > EPISODE_TYPE_PRIORITY["series_premiere"]
           /\ EPISODE_TYPE_PRIORITY["series_premiere"] > EPISODE_TYPE_PRIORITY["season_premiere"]
           /\ EPISODE_TYPE_PRIORITY["season_premiere"] > EPISODE_TYPE_PRIORITY["mid_season_premiere"]
           /\ EPISODE_TYPE_PRIORITY["mid_season_premiere"] > EPISODE_TYPE_PRIORITY["standard"]

\* C21 witness: three episodes of one show and season, two of them on the same
\* day at different hours with the finale coming second, gave two records
C21_Witness ==
    /\ gcDone /\ Len(gcInput) = 3 /\ Len(gcGroups) = 2
    /\ \E g \in DOMAIN gcGroups :
          LET c == Contributing(gcInput, <<gcGroups[g].date, gcGroups[g].show,
                                           gcGroups[g].season>>)
          IN /\ Len(c) = 2
             /\ c[1].episode_type = "standard"
             /\ c[2].episode_type = "season_finale"
             /\ c[1].first_aired # c[2].first_aired
             /\ Len(gcGroups[g].episodes) = 2
             /\ gcGroups[g].episode_type = "season_finale"

\* a record without the order of its episode numbers
Unordered(rec) ==
    [date |-> rec.date, show |-> rec.show, season |-> rec.season,
     episode_type |-> rec.episode_type,
     episodes |-> [n \in EpisodeNos |-> Count(rec.episodes, n)]]

UnorderedSet(groups) == {Unordered(groups[g]) : g \in DOMAIN groups}

\* C22: every rearrangement of the input episodes gives the same set of
\* records: the same keys, the same multiset of episode numbers and the same
\* episode_type for each key.
C22_GroupingOrderIndependent ==
    gcDone =>
        \A r \in PermsOf(gcInput) :
            /\ Len(GroupCalendarEpisodes(r)) = Len(gcGroups)
            /\ UnorderedSet(GroupCalendarEpisodes(r)) = UnorderedSet(gcGroups)

\* C22 witness: episodes of two keys interleaved (A, B, A), with the types of
\* the two A episodes differing, were grouped into two records
C22_Witness ==
    /\ gcDone /\ Len(gcInput) = 3 /\ Len(gcGroups) = 2
    /\ SiteOf(gcInput[1]) = SiteOf(gcInput[3])
    /\ SiteOf(gcInput[1]) # SiteOf(gcInput[2])
    /\ gcInput[1].episode_type # gcInput[3].episode_type
    /\ gcInput[1].number # gcInput[3].number

----------------------------------------------------------------------------
(* Properties of enrichItems                                               *)

\* the rating /sync/ratings/all gives for a movie, show, season or episode
\* (0: none), the latest if it is rated more than once
RatedAs(kind, sh, se, n) ==
    LET idx == {i \in DOMAIN enRatingItems :
                  /\ enRatingItems[i].type = kind
                  /\ enRatingItems[i].show = sh
                  /\ kind \in {"season", "episode"} => enRatingItems[i].season = se
                  /\ kind = "episode" => enRatingItems[i].number = n}
    IN IF idx = {} THEN 0
       ELSE enRatingItems[CHOOSE i \in idx : \A j \in idx : j <= i].rating

\* the first of a, b, c that is a rating
FirstRating(a, b, c) == IF a # 0 THEN a ELSE IF b # 0 THEN b ELSE c

\* the rating a display item shows (0: it has no rating field)
Shown(it) == IF it.rating.has THEN it.rating.v ELSE 0

\* C23: a display item of one episode shows the rating of the episode if there
\* is one, else that of the season, else that of the show, else none; a display
\* item of several episodes shows the rating of the season, else that of the
\* show, else none, whatever the ratings of its episodes.
C23_RatingFallback ==
    enDone =>
        \A i \in DOMAIN enItems :
            LET g == enItems[i].from
                ofShow == RatedAs("show", g.show, 0, 0)
                ofSeason == RatedAs("season", g.show, g.season, 0)
            IN g.type # "movie" =>
                 IF Len(g.episodes) = 1
                   THEN Shown(enItems[i])
                          = FirstRating(RatedAs("episode", g.show, g.season,
                                                g.episodes[1]),
                                        ofSeason, ofShow)
                   ELSE Shown(enItems[i]) = FirstRating(0, ofSeason, ofShow)

\* C23 witness: with episode 1 and the show rated but not the season, the item
\* of episode 1 alone shows the rating of the episode and the item of episodes
\* 1 and 2 shows the rating of the show
C23_Witness ==
    /\ enDone
    /\ RatedAs("episode", 1, 1, 1) = 10 /\ RatedAs("season", 1, 1, 0) = 0
    /\ RatedAs("show", 1, 0, 0) = 8
    /\ \E i, j \in DOMAIN enItems :
          /\ enItems[i].from.episodes = <<1>> /\ enItems[i].from.show = 1
          /\ Shown(enItems[i]) = 10
          /\ enItems[j].from.episodes = <<1, 2>> /\ enItems[j].from.show = 1
          /\ Shown(enItems[j]) = 8

\* C24: enrichItems returns one display item per grouped record; an item whose
\* show has no season lookup, or whose season is not in the lookup, has the
\* year of the show and the poster of the show if the show has one and no
\* poster otherwise; an item with no rating of episode, season or show has no
\* rating.
C24_MissingDataTolerated ==
    enDone =>
        /\ Len(enItems) = Len(GroupHistory(enHistory))
        /\ \A i \in DOMAIN enItems :
              LET g == enItems[i].from
              IN /\ g = GroupHistory(enHistory)[i]
                 /\ (g.type # "movie"
                     /\ ~(g.show \in DOMAIN enSeasons
                          /\ g.season \in DOMAIN enSeasons[g.show]))
                    => /\ enItems[i].year = ShowYear(g.show)
                       /\ enItems[i].poster
                            = IF g.show = 1
                                THEN [has |-> TRUE,
                                      v |-> <<"h", "t", "t", "p", "s", ":", "/", "/",
                                              "i", "m", "g">>]
                                ELSE [has |-> FALSE, v |-> <<>>]
                 /\ (/\ g.type # "movie"
                     /\ RatedAs("show", g.show, 0, 0) = 0
                     /\ RatedAs("season", g.show, g.season, 0) = 0
                     /\ \A n \in EpisodeNos : RatedAs("episode", g.show, g.season, n) = 0)
                    => ~enItems[i].rating.has

\* C24 witness: no lookup for show 2, a lookup without season 1 for show 1 and
\* no ratings; both shows got their item, show 1 with its own poster
C24_Witness ==
    /\ enDone /\ enRatingItems = <<>>
    /\ DOMAIN enSeasons = {1} /\ DOMAIN enSeasons[1] = {2}
    /\ \E i, j \in DOMAIN enItems :
          /\ enItems[i].from.show = 2 /\ enItems[i].year = 2002
          /\ ~enItems[i].poster.has /\ ~enItems[i].rating.has
          /\ enItems[j].from.show = 1 /\ enItems[j].year = 2001
          /\ enItems[j].poster.has /\ ~enItems[j].rating.has

----------------------------------------------------------------------------
(* Properties of the proxy worker                                          *)

\* the Origin header names an origin of the allow-list
OriginOnList ==
    /\ pxOrigin.parses
    /\ \/ pxOrigin.scheme = "https" /\ pxOrigin.host = "www.ykvlv.dev"
          /\ pxOrigin.port \in {0, 443}
       \/ pxOrigin.scheme = "http" /\ pxOrigin.host = "localhost"
          /\ pxOrigin.port = 5173

\* the path begins with /account/status, /users/ or /tracks
PathOnList ==
    \E n \in 1..Len(pxPath) :
        SubSeq(pxPath, 1, n) \in {<<"/", "a", "c", "c", "o", "u", "n", "t", "/", "s", "t", "a", "t", "u", "s">>,
                                  <<"/", "u", "s", "e", "r", "s", "/">>,
                                  <<"/", "t", "r", "a", "c", "k", "s">>}

\* the request is for /download-info or /proxy-audio
ExternalRoute ==
    pxPath \in {<<"/", "d", "o", "w", "n", "l", "o", "a", "d", "-", "i", "n", "f", "o">>, <<"/", "p", "r", "o", "x", "y", "-", "a", "u", "d", "i", "o">>}

UrlMissing == pxParam.null \/ pxParam.empty

\* the request may be passed upstream
MayContact ==
    /\ OriginOnList
    /\ \/ PathOnList
       \/ /\ ExternalRoute /\ ~UrlMissing /\ pxParam.parses
          /\ pxParam.host = "api.music.yandex.net"

\* C25: for a request that is not OPTIONS, an upstream request is made only if
\* the Origin is on the origin allow-list and either the path begins with an
\* allowed prefix or the route is /download-info or /proxy-audio and the host
\* of the url parameter is on the external-host allow-list, and it then goes
\* to that host; every other request is answered 403, or 400 when the url
\* parameter of such a route is missing, and no upstream request is made.
C25_UpstreamOnlyIfAllowed ==
    pxMethod # "OPTIONS" =>
        /\ Len(pxUpstream) <= 1
        /\ pxUpstream # <<>>
           => /\ MayContact
              /\ pxUpstream[1].host = "api.music.yandex.net"
        /\ ~MayContact
           => /\ pxUpstream = <<>>
              /\ pxPc # "upstream"
              /\ pxPc = "done"
                 => /\ pxStatus \in {400, 403}
                    /\ pxStatus = 400 <=> (OriginOnList /\ ExternalRoute /\ UrlMissing)

\* C25 witness: a POST from an origin that is not on the list to an allowed
\* path was answered 403 without an upstream request
C25_Witness ==
    /\ pxMethod = "POST" /\ pxPc = "done" /\ pxStatus = 403 /\ pxUpstream = <<>>
    /\ pxOrigin.parses /\ pxOrigin.host = "www.ykvlv.dev.evil.example"
    /\ pxPath = <<"/", "t", "r", "a", "c", "k", "s">>

----------------------------------------------------------------------------
(* Properties of the bookkeeping of mutations                              *)

\* call i created a promise that has not settled
Unsettled(i) == calls[i].st \in {"inflight", "aborted"}

\* call i settles in this step
Settles(i) == i \in DOMAIN calls /\ Unsettled(i) /\ calls'[i].st = "settled"

\* after the step the markers of the kind of call i are gone for its track
OwnMarkersGone(i) ==
    LET c == calls[i]
    IN IF c.kind = "add"
         THEN /\ c.t \notin pendingAddsRef' /\ c.t \notin pendingAdds'
              /\ inFlightAdds'[c.t] = 0
              /\ ctlAdd'[<<c.t, c.p>>] = 0
         ELSE /\ c.t \notin pendingUnlikesRef' /\ c.t \notin pendingUnlikes'
              /\ inFlightUnlikes'[c.t] = 0
              /\ ctlUnlike'[c.t] = 0

\* after the step the track of call i is in no pending set at all
NoPendingAtAll(i) ==
    LET t == calls[i].t
    IN /\ t \notin pendingAddsRef' /\ t \notin pendingAdds'
       /\ t \notin pendingUnlikesRef' /\ t \notin pendingUnlikes'

\* every pending marker, in-flight entry and controller belongs to a mutation
\* that has not settled
MarkersOwned ==
    /\ \A t \in pendingAddsRef \cup pendingAdds :
          \E i \in DOMAIN calls :
             Unsettled(i) /\ calls[i].kind = "add" /\ calls[i].t = t
    /\ \A t \in pendingUnlikesRef \cup pendingUnlikes :
          \E i \in DOMAIN calls :
             Unsettled(i) /\ calls[i].kind = "unlike" /\ calls[i].t = t
    /\ \A t \in Tracks :
          /\ inFlightAdds[t] # 0 => Unsettled(inFlightAdds[t])
          /\ inFlightUnlikes[t] # 0 => Unsettled(inFlightUnlikes[t])
          /\ ctlUnlike[t] # 0 => Unsettled(ctlUnlike[t])
          /\ \A p \in Kinds : ctlAdd[<<t, p>>] # 0 => Unsettled(ctlAdd[<<t, p>>])

\* a mutation that has not settled can settle: its continuation is enabled,
\* or it waits only for continuations of the current task, which are enabled
CanSettle ==
    \A i \in DOMAIN calls :
        /\ calls[i].st = "aborted" => ENABLED SettleAborted(i)
        /\ (calls[i].st = "inflight" /\ ~MicrotaskPending)
           => IF calls[i].kind = "add"
                THEN ENABLED AddSucceed(i) /\ ENABLED AddFail(i)
                ELSE ENABLED UnlikeSucceed(i) /\ ENABLED UnlikeFail(i)
        /\ (calls[i].st = "inflight" /\ MicrotaskPending)
           => \/ \E j \in DOMAIN calls : ENABLED SettleAborted(j)
              \/ \E l \in loads : ENABLED LoadAbortedContinue(l)
              \/ ENABLED OrchResume

\* a settled mutation stays settled
StaysSettled ==
    \A i \in DOMAIN calls : calls[i].st = "settled" => calls'[i].st = "settled"

----------------------------------------------------------------------------
(* Properties of the delta callbacks                                       *)

\* the membership set and the trackCount of playlist p that the hook exposes
ExposedTracks(p) == IF p \in EffTracks.has THEN EffTracks.set[p] ELSE {}
ExposedCount(p) == EffPlaylists.count[p]
CountMinusSize(p) == ExposedCount(p) - Cardinality(ExposedTracks(p))

\* C27: an add delta increments trackCount by one exactly when the track was
\* not in the membership set, a rollback decrements it by one exactly when
\* the track was in the set, so no delta changes trackCount minus the size of
\* the set, for any playlist
C27_DeltasKeepDifference ==
    [][\A p \in Kinds : CountMinusSize(p)' = CountMinusSize(p)]_vars

----------------------------------------------------------------------------
(* Properties of the playlist state across identities and aborted loads    *)

\* what usePlaylistsData exposes is empty
ExposedEmpty(pl, liked, tracks) == pl.has = {} /\ liked = <<>> /\ tracks.has = {}

\* C28: when the uid changes, the playlists, liked track ids and membership
\* that usePlaylistsData exposes are empty, so nothing fetched for the
\* previous identity is exposed under the new one
C28_EmptyOnIdentityChange ==
    [][uid' # uid => ExposedEmpty(EffPlaylists, EffLiked, EffTracks)']_vars

\* C29: a loadData whose signal has been aborted writes none of playlists,
\* likedTrackIds and playlistTracks when it returns, at whatever point of the
\* load the abort arrived
C29_AbortedLoadWritesNothing ==
    [][(\E l \in loads : l.aborted /\ l \notin loads')
          => UNCHANGED <<fPlaylists, fLiked, fTracks>>]_vars

----------------------------------------------------------------------------
(* Properties of usePlaylistsPagination                                    *)

\* the tracks of the page that was requested last
RequestedTracks ==
    TracksOf(PageTrackIds(pageRequested.page,
                          [v |-> pageRequested.v, n |-> pageRequested.n]))

\* a loadPage call whose signal was aborted returns without writing
\* currentPageTracks, and at most one call has a signal that is not aborted
AbortedPageLoadWritesNothing ==
    [][/\ (\E l \in pageLoads : l.aborted /\ l \notin pageLoads')
            => currentPageTracks' = currentPageTracks
       /\ Cardinality({l \in pageLoads' : ~l.aborted}) <= 1]_vars

\* C30: a new page load aborts the load that is outstanding, whose result is
\* never written to currentPageTracks, and once loading has finished
\* (isLoadingPage is false, the parent is not loading, the load did not fail)
\* the tracks shown are those of the page that was requested last
C30_FinishedShowsRequestedPage ==
    (/\ ~isLoadingPage /\ ~PgRenderPending /\ ~skipLoading
     /\ pageRequested.page # 0 /\ ~pageRequested.failed)
        => currentPageTracks = RequestedTracks

----------------------------------------------------------------------------
(* Properties of getGranularity                                            *)

\* the granularities from the finest to the coarsest
Coarseness == [day |-> 1, week |-> 2, month |-> 3, year |-> 4]

\* C33: an age below 7 days is a day, 7 to 29 a week, 30 to 364 a month, 365
\* and more a year; every integer age has a granularity, and an age that is
\* at least as old never gets a finer granularity
C33_GranularityBandsMonotone ==
    grDone =>
        /\ grResult \in {"day", "week", "month", "year"}
        /\ (grResult = "day") <=> (grDaysAgo < 7)
        /\ (grResult = "week") <=> (7 <= grDaysAgo /\ grDaysAgo <= 29)
        /\ (grResult = "month") <=> (30 <= grDaysAgo /\ grDaysAgo <= 364)
        /\ (grResult = "year") <=> (grDaysAgo >= 365)
        /\ \A older \in grDaysAgo..MaxDaysAgo :
              Coarseness[GetGranularity(older)] >= Coarseness[grResult]

\* C33 witness: the first age that is no longer a day
C33_Witness == grDone /\ grDaysAgo = 7 /\ grResult = "week"

----------------------------------------------------------------------------
(* Properties of useYandexAuth                                             *)

\* the entry is the text of a JSON object with a string token and a user
\* whose uid is a number
WellFormedBundle(entry) ==
    /\ entry.syntax = "json"
    /\ entry.value.type = "object"
    /\ "token" \in entry.value.keys /\ entry.value.token.type = "string"
    /\ "user" \in entry.value.keys /\ entry.value.user.type = "object"
    /\ entry.value.user.uid.type = "number"

\* the restore has run and nothing else has happened since
JustRestored == auInitialized /\ auCalls = 0 /\ auMounted

\* the entry is gone, no account request was made, and the hook is
\* unauthenticated and not loading
TreatedAsAbsent ==
    /\ ~auStored.has
    /\ auRequests = 0
    /\ auAuth = NoAuth
    /\ ~auIsLoading

\* C32 as stated: a stored entry that is not valid JSON, or lacks a string
\* token or a numeric user uid, is removed at start-up, no account request
\* is made and the hook ends unauthenticated with isLoading false
C32_InvalidBundleRemoved ==
    (JustRestored /\ auFound.has /\ ~WellFormedBundle(auFound)) => TreatedAsAbsent

\* C32 amended: the same for every stored entry but the empty string, which
\* is treated as absent as well but is left in localStorage
C32_InvalidBundleRemovedUnlessEmpty ==
    (JustRestored /\ auFound.has /\ ~WellFormedBundle(auFound))
        => IF auFound.syntax = "empty"
             THEN auStored = auFound /\ auRequests = 0 /\ auAuth = NoAuth
                  /\ ~auIsLoading
             ELSE TreatedAsAbsent

\* C32 witness: the entry found had a string token but a user without a
\* numeric uid, and it has been removed
C32_Witness ==
    /\ JustRestored
    /\ auFound.has /\ auFound.syntax = "json"
    /\ auFound.value.token.type = "string"
    /\ auFound.value.user.type = "object" /\ auFound.value.user.uid.type = "string"
    /\ TreatedAsAbsent

\* the token of the bundle in localStorage, 0 when there is none
PersistedToken ==
    IF auStored.has /\ WellFormedBundle(auStored) THEN auStored.value.token.v ELSE 0

\* the restore has run and no account request is outstanding
SessionSettled == auInitialized /\ auMounted /\ auOps = {}

\* C40: once the restore and every login have settled, the token in memory
\* is the token in localStorage, or both are absent
C40_MemoryMatchesStorage ==
    SessionSettled => auAuth.token = PersistedToken

----------------------------------------------------------------------------
(* Properties of YandexMusicAPI.addTrackToPlaylist: the retries parameter  *)

\* C38: the call resolves without an error only if the remote accepted a
\* diff submission during the call, whatever the value of retries
C38_ResolvedMeansAccepted ==
    (apiPc = "done" /\ apiResult = "ok") => apiAccepted >= 1

----------------------------------------------------------------------------
(* Properties of the hooks: overlapping loads, settled mutations            *)

\* a loadData started by refresh() is awaiting its requests
RefreshFetchInFlight == \E l \in loads : l.isRefresh /\ ~l.aborted

\* C34: while a fetch started by refresh() is in flight, isRefreshing and
\* isLoading are true; the return of an older, aborted load does not clear them
C34_RefreshingWhileRefreshInFlight ==
    (alive /\ RefreshFetchInFlight) => (isRefreshing /\ isLoading)

\* the local overlay of usePlaylistsData
LocalOverlay == <<lPlaylists, lLiked, lTracks>>

\* C36: when the fetch of a refresh failed or was aborted before it wrote
\* anything, the refresh() loop that resumes leaves the local overlay as it is
C36_FailedRefreshKeepsOverlay ==
    [][(orch.pc = "resume" /\ orch' # orch /\ ~orch.fresh)
          => LocalOverlay' = LocalOverlay]_vars

\* the remote operation behind the result of call j inserted the track of
\* call j into the playlist of call j
InsertAcceptedFor(j) ==
    LET i == PromOf(calls, j)
    IN /\ i # 0
       /\ calls[i].result = "ok"
       /\ calls[i].t = calls[j].t /\ calls[i].p = calls[j].p
       /\ calls[j].t \in srvTracks[calls[j].p]

\* C37: an addTrackToPlaylist(T, P) that returned success: true means the
\* remote accepted the insert of T into P, also when the call was made while
\* an add of T to another playlist was in flight
C37_SuccessMeansInsertedThere ==
    \A j \in DOMAIN calls :
        (calls[j].kind = "add" /\ ResultOf(calls, j) = "ok") => InsertAcceptedFor(j)

\* the track ids that have an entry in the in-flight map
InFlightAddKeys == {t \in Tracks : inFlightAdds[t] # 0}
InFlightUnlikeKeys == {t \in Tracks : inFlightUnlikes[t] # 0}

\* C39: a track id is in the pending-adds set exactly when the in-flight map
\* of adds has an entry for it, and likewise for unlikes, also between the
\* cleanup and the settling of the mutations it cancelled
C39_PendingIffInFlight ==
    /\ pendingAddsRef = InFlightAddKeys
    /\ pendingUnlikesRef = InFlightUnlikeKeys

\* no load, no refresh() and no mutation is outstanding, and the identity
\* has not changed since the mount
AllSettled ==
    /\ alive /\ idChanges = 0
    /\ loads = {} /\ orch.pc = "idle"
    /\ \A i \in DOMAIN calls : ResultOf(calls, i) # "none"

\* C35: once every mutation and refresh has settled, the track of every add
\* whose own request returned success: true is in the exposed membership set
\* of its playlist
C35_SettledAddsAreExposed ==
    AllSettled =>
        \A j \in DOMAIN calls :
            (calls[j].kind = "add" /\ calls[j].prom = j /\ calls[j].result = "ok")
                => calls[j].t \in EffSet(calls[j].p)

====
